---- MODULE Spec2Model ----
(***************************************************************************)
(* Model of the WordPress HTML sanitizer of src/lib/wordpress (blocks.ts): *)
(* sanitizeWordPressHtml, its transformTags callbacks (link classification *)
(* and iframe origin guard) and isAllowedIframeSrc.                        *)
(*                                                                         *)
(* Strings the code takes apart (URLs, attribute names, rel lists) are     *)
(* sequences of lexemes: a word such as "example.com" or "https" is one    *)
(* lexeme, every delimiter (":", "/", "?", "#", "@", "\\", " ") is one     *)
(* lexeme, and an HTML character reference such as "&#58;" is one lexeme.  *)
(* The empty string is the empty sequence.                                 *)
(***************************************************************************)
EXTENDS Integers, Sequences, FiniteSets, TLC

VARIABLES
    env,            \* process.env.NEXT_PUBLIC_SITE_URL (<<>> when unset)
    phase,          \* "idle", "parsing" (inside sanitizeHtml), "done"
    input,          \* the parser events delivered so far (history)
    open,           \* htmlparser2's stack of open elements (lower-cased names)
    stack,          \* sanitize-html: stack of Frames
    depth,          \* sanitize-html: depth
    skipMap,        \* sanitize-html: depths whose tag is being skipped
    transformMap,   \* sanitize-html: depth -> transformed tag name
    skipText,       \* sanitize-html: inside a non-text tag
    skipTextDepth,  \* sanitize-html: nesting inside the non-text tag
    result,         \* sanitize-html: the output built so far
    arg,            \* the element of a one-element fragment (NoArg otherwise)
    ret             \* the verdict isExternal / isAllowedIframeSrc gave for it

vars == <<env, phase, input, open, stack, depth, skipMap, transformMap,
          skipText, skipTextDepth, result, arg, ret>>

(***************************************************************************)
(* Lexemes                                                                 *)
(***************************************************************************)
Space == " "

\* Lexemes that are not words.
Delims == {":", "/", "?", "#", "@", "\\", "=", Space, "&#58;"}

\* Words that do not have the shape [a-zA-Z][a-zA-Z0-9.+-]* of a URL scheme.
NonSchemeWords == {"8080", "3000", "+123", "alert(1)", "text/html,x", "a%b"}

\* Words made of decimal digits only.
DigitWords == {"8080", "3000"}

\* String.prototype.toLowerCase / ASCII lower-casing, on the words in use.
LowerCase(w) ==
    CASE w = "HTTPS" -> "https"
      [] w = "JaVaScRiPt" -> "javascript"
      [] w = "MAILTO" -> "mailto"
      [] w = "EXAMPLE.COM" -> "example.com"
      [] w = "WWW.YOUTUBE.COM" -> "www.youtube.com"
      [] w = "ScRiPt" -> "script"
      [] w = "IFRAME" -> "iframe"
      [] w = "ON" -> "on"
      [] OTHER -> w

IsWord(w) == w \notin Delims

IsSchemeWord(w) == IsWord(w) /\ w \notin NonSchemeWords

\* The sequence s without the lexemes for which Drop holds.
RECURSIVE Without(_, _)
Without(s, dropSet) ==
    IF s = <<>> THEN <<>>
    ELSE IF Head(s) \in dropSet THEN Without(Tail(s), dropSet)
    ELSE <<Head(s)>> \o Without(Tail(s), dropSet)

\* Index of the first lexeme of s that is in S, Len(s) + 1 when there is none.
FirstIn(s, S) ==
    IF \E i \in 1..Len(s) : s[i] \in S
    THEN CHOOSE i \in 1..Len(s) : s[i] \in S /\ \A j \in 1..(i - 1) : s[j] \notin S
    ELSE Len(s) + 1

\* Index of the last lexeme of s that is in S, 0 when there is none.
LastIn(s, S) ==
    IF \E i \in 1..Len(s) : s[i] \in S
    THEN CHOOSE i \in 1..Len(s) : s[i] \in S /\ \A j \in (i + 1)..Len(s) : s[j] \notin S
    ELSE 0

Drop(s, n) == SubSeq(s, n + 1, Len(s))

Take(s, n) == SubSeq(s, 1, n)

\* s.startsWith(p)
StartsWith(s, p) == Len(s) >= Len(p) /\ Take(s, Len(p)) = p

\* The sequence s without its leading lexemes that are in S.
RECURSIVE DropWhileIn(_, _)
DropWhileIn(s, S) ==
    IF s # <<>> /\ Head(s) \in S THEN DropWhileIn(Tail(s), S) ELSE s

\* The sequence s without its trailing lexemes that are in S.
RECURSIVE DropTrailing(_, _)
DropTrailing(s, S) ==
    IF s # <<>> /\ s[Len(s)] \in S THEN DropTrailing(Take(s, Len(s) - 1), S) ELSE s

(***************************************************************************)
(* new URL(input, base): the WHATWG URL parser, as far as the hostname.    *)
(* Each state of the parser is an operator that hands what it has read to  *)
(* the next one.                                                           *)
(***************************************************************************)
SpecialSchemes == {"http", "https", "ftp", "ws", "wss"}

Slashes == {"/", "\\"}

\* The parser failed: new URL throws TypeError.
Failure == [ok |-> FALSE, scheme |-> "", hostname |-> "", port |-> ""]

\* No base URL was given.
NoBase == Failure

\* port state: the host and the port have been read.
PortState(scheme, userinfo, host, port) ==
    IF host = <<>> /\ (scheme \in SpecialSchemes \/ userinfo \/ port # <<>>) THEN Failure
    ELSE IF Len(host) > 1 \/ \E i \in 1..Len(host) : ~IsWord(host[i]) THEN Failure
    ELSE IF Len(port) > 1 \/ \E i \in 1..Len(port) : port[i] \notin DigitWords
    THEN Failure
    ELSE [ok |-> TRUE, scheme |-> scheme,
          hostname |-> IF host = <<>> THEN ""
                       ELSE IF scheme \in SpecialSchemes THEN LowerCase(host[1])
                       ELSE host[1],
          port |-> IF port = <<>> THEN "" ELSE port[1]]

\* host state: hostport is the authority after its last "@".
HostState(scheme, userinfo, hostport, colon) ==
    PortState(scheme, userinfo, Take(hostport, colon - 1), Drop(hostport, colon))

\* authority state: auth is the authority, at the index of its last "@".
AuthorityState(scheme, auth, at) ==
    HostState(scheme, at > 0, Drop(auth, at), FirstIn(Drop(auth, at), {":"}))

\* The authority of s, which follows the slashes: it ends at the path, the
\* query or the fragment.
AuthorityEnd(scheme, s) ==
    FirstIn(s, {"/", "?", "#"} \cup (IF scheme \in SpecialSchemes THEN {"\\"} ELSE {}))

ParseAuthority(scheme, s, stop) ==
    AuthorityState(scheme, Take(s, stop - 1), LastIn(Take(s, stop - 1), {"@"}))

\* Where the parser goes after the scheme (or its absence): "failure",
\* "opaque" (a path without authority), "base" (the host of the base URL) or
\* "authority" (rest holds the authority).
Route(mode, scheme, rest) == [mode |-> mode, scheme |-> scheme, rest |-> rest]

\* relative state and relative slash state: s has no scheme of its own.
RelativeState(s, base) ==
    IF Len(s) >= 2 /\ s[1] \in Slashes /\ s[2] \in Slashes
    THEN Route("authority", base.scheme, DropWhileIn(s, Slashes))
    ELSE Route("base", base.scheme, <<>>)

\* scheme state: the input starts with scheme ":" and rest follows.
SchemeState(scheme, rest, base) ==
    IF scheme \in SpecialSchemes
    THEN IF base.ok /\ base.scheme = scheme /\ ~StartsWith(rest, <<"/", "/">>)
         THEN RelativeState(rest, base)
         ELSE Route("authority", scheme, DropWhileIn(rest, Slashes))
    ELSE IF StartsWith(rest, <<"/", "/">>)
         THEN Route("authority", scheme, Drop(rest, 2))
         ELSE Route("opaque", scheme, <<>>)

\* no scheme state
NoSchemeState(s, base) ==
    IF ~base.ok THEN Route("failure", "", <<>>)
    ELSE IF base.scheme \notin SpecialSchemes /\ base.hostname = ""
            /\ ~StartsWith(s, <<"#">>)
    THEN Route("failure", "", <<>>)
    ELSE RelativeState(s, base)

\* scheme start state: s is the input without leading and trailing spaces.
SchemeStartState(s, base) ==
    IF Len(s) >= 2 /\ IsSchemeWord(s[1]) /\ s[2] = ":"
    THEN SchemeState(LowerCase(s[1]), Drop(s, 2), base)
    ELSE NoSchemeState(s, base)

FollowRoute(r, base) ==
    CASE r.mode = "failure" -> Failure
      [] r.mode = "opaque" ->
            [ok |-> TRUE, scheme |-> r.scheme, hostname |-> "", port |-> ""]
      [] r.mode = "base" ->
            [ok |-> TRUE, scheme |-> r.scheme, hostname |-> base.hostname,
             port |-> base.port]
      [] OTHER -> ParseAuthority(r.scheme, r.rest, AuthorityEnd(r.scheme, r.rest))

\* new URL(inputStr) and, with a parsed base, new URL(inputStr, base).
ParseURL(inputStr, base) ==
    FollowRoute(SchemeStartState(DropTrailing(DropWhileIn(inputStr, {Space}), {Space}),
                                 base),
                base)

(***************************************************************************)
(* Attribute bags: htmlparser2 hands sanitize-html an object attribs, here *)
(* a sequence of [n |-> name, v |-> value] with distinct names, in         *)
(* insertion order.  A name is a sequence of segments (<<"data-", "x">>),  *)
(* a value a sequence of lexemes.                                          *)
(***************************************************************************)
HasAttr(attribs, n) == \E i \in 1..Len(attribs) : attribs[i].n = n

\* attribs[n] || '' : the value, or the empty string when absent.
Attr(attribs, n) ==
    IF HasAttr(attribs, n)
    THEN attribs[CHOOSE i \in 1..Len(attribs) : attribs[i].n = n].v
    ELSE <<>>

\* { ...attribs, n: v } : overrides in place, or appends.
SetAttr(attribs, n, v) ==
    IF HasAttr(attribs, n)
    THEN [i \in 1..Len(attribs) |->
            IF attribs[i].n = n THEN [n |-> n, v |-> v] ELSE attribs[i]]
    ELSE Append(attribs, [n |-> n, v |-> v])

Range(s) == {s[i] : i \in 1..Len(s)}

(***************************************************************************)
(* Embed Origin Guard                                                      *)
(***************************************************************************)
ALLOWED_IFRAME_HOSTS ==
    {"www.youtube.com", "youtube.com", "www.youtube-nocookie.com",
     "youtube-nocookie.com", "player.vimeo.com", "vimeo.com"}

\* Variant: the host list matched as a domain suffix (endsWith) and not as a
\* whole hostname.
HostAllowedBySuffix(url) ==
    IF url.ok
    THEN url.hostname \in ALLOWED_IFRAME_HOSTS \cup {"evil.youtube.com"}
    ELSE FALSE

\* Variant: catch returns true.
HostAllowedOnFailure(url) ==
    IF url.ok THEN url.hostname \in ALLOWED_IFRAME_HOSTS ELSE TRUE

\* ALLOWED_IFRAME_HOSTS.includes(url.hostname), false when new URL threw.
HostAllowed(url) == IF url.ok THEN url.hostname \in ALLOWED_IFRAME_HOSTS ELSE FALSE

isAllowedIframeSrc(src) == HostAllowed(ParseURL(src, NoBase))

(***************************************************************************)
(* URL Classifier: the isExternal closure of transformTags.a               *)
(***************************************************************************)
DefaultSiteUrl == <<"http", ":", "/", "/", "localhost">>

\* Variant: the site URL as it was configured when the process started.
SiteUrlStrAtStartup == IF arg.startup # <<>> THEN arg.startup ELSE DefaultSiteUrl

\* Variant: no default for an unset site URL.
SiteUrlStrNoDefault == env

\* process.env.NEXT_PUBLIC_SITE_URL || 'http://localhost'
SiteUrlStr == IF env # <<>> THEN env ELSE DefaultSiteUrl

\* Variant: linkUrl.host !== siteUrl.host, which compares the ports too.
HostsDiffer(linkUrl, siteUrl) ==
    IF linkUrl.ok /\ siteUrl.ok
    THEN <<linkUrl.hostname, linkUrl.port>> # <<siteUrl.hostname, siteUrl.port>>
    ELSE FALSE

\* Variant: catch returns true.
HostnamesDifferOrThrew(linkUrl, siteUrl) ==
    IF linkUrl.ok /\ siteUrl.ok THEN linkUrl.hostname # siteUrl.hostname ELSE TRUE

\* linkUrl.hostname !== siteUrl.hostname, false when either new URL threw.
HostnamesDiffer(linkUrl, siteUrl) ==
    IF linkUrl.ok /\ siteUrl.ok THEN linkUrl.hostname # siteUrl.hostname ELSE FALSE

\* Variant: with a site URL that new URL rejects, the link parsed on its own
\* and an absolute link taken as external.
CompareHostsWithoutSite(href, siteUrl) ==
    IF siteUrl.ok THEN HostnamesDiffer(ParseURL(href, siteUrl), siteUrl)
    ELSE ParseURL(href, NoBase).ok

\* The try block: new URL(href, siteUrlStr) and new URL(siteUrlStr); siteUrl
\* is the parsed site URL, which is also the base of the link.
CompareHosts(href, siteUrl) ==
    HostnamesDiffer(IF siteUrl.ok THEN ParseURL(href, siteUrl) ELSE Failure, siteUrl)

\* Variant: the target rule tried after the href rules.
isExternalTargetLast(href, target) ==
    IF href = <<>> THEN FALSE
    ELSE IF StartsWith(href, <<"/">>) /\ ~StartsWith(href, <<"/", "/">>) THEN FALSE
    ELSE IF StartsWith(href, <<"#">>) THEN FALSE
    ELSE IF StartsWith(href, <<"mailto", ":">>) \/ StartsWith(href, <<"tel", ":">>)
    THEN FALSE
    ELSE IF target = <<"_blank">> THEN TRUE
    ELSE CompareHosts(href, ParseURL(SiteUrlStr, NoBase))

\* Variant: without the mailto: and tel: rule.
isExternalNoMailRule(href, target) ==
    IF target = <<"_blank">> THEN TRUE
    ELSE IF href = <<>> THEN FALSE
    ELSE IF StartsWith(href, <<"/">>) /\ ~StartsWith(href, <<"/", "/">>) THEN FALSE
    ELSE IF StartsWith(href, <<"#">>) THEN FALSE
    ELSE CompareHosts(href, ParseURL(SiteUrlStr, NoBase))

isExternal(href, target) ==
    IF target = <<"_blank">> THEN TRUE
    ELSE IF href = <<>> THEN FALSE
    ELSE IF StartsWith(href, <<"/">>) /\ ~StartsWith(href, <<"/", "/">>) THEN FALSE
    ELSE IF StartsWith(href, <<"#">>) THEN FALSE
    ELSE IF StartsWith(href, <<"mailto", ":">>) \/ StartsWith(href, <<"tel", ":">>)
    THEN FALSE
    ELSE CompareHosts(href, ParseURL(SiteUrlStr, NoBase))

\* existingRel.split(' ').filter(Boolean)
RelTokens(rel) == Without(rel, {Space})

\* Variant: an array in place of the Set, which keeps repeated tokens.
KeepRepeated(s) == s

\* new Set(tokens), then add(t): insertion order, no duplicates.
RECURSIVE Dedup(_)
Dedup(s) ==
    IF s = <<>> THEN <<>>
    ELSE LET r == Dedup(Take(s, Len(s) - 1))
         IN  IF s[Len(s)] \in Range(r) THEN r ELSE Append(r, s[Len(s)])

\* Array.from(set).join(' ')
RECURSIVE JoinSpace(_)
JoinSpace(tokens) ==
    IF Len(tokens) <= 1 THEN tokens
    ELSE <<Head(tokens), Space>> \o JoinSpace(Tail(tokens))

\* The rel value of an external link: the existing tokens, noopener and
\* noreferrer, joined by spaces.
MergedRel(existingRel) ==
    JoinSpace(Dedup(RelTokens(existingRel) \o <<"noopener", "noreferrer">>))

\* Variant: the rel merged whatever the verdict.
AnchorResultAlwaysMerged(tagName, attribs, ext) ==
    [tagName |-> tagName,
     attribs |-> SetAttr(attribs, <<"rel">>, MergedRel(Attr(attribs, <<"rel">>))),
     isExternal |-> ext]

\* The return statement of transformTags.a for the verdict ext.
AnchorResult(tagName, attribs, ext) ==
    [tagName |-> tagName,
     attribs |-> IF ext THEN SetAttr(attribs, <<"rel">>, MergedRel(Attr(attribs, <<"rel">>)))
                 ELSE attribs,
     isExternal |-> ext]

\* transformTags.a: returns the tag name, the attributes and (for the
\* properties) the verdict of its isExternal closure.
TransformA(tagName, attribs) ==
    AnchorResult(tagName, attribs,
                 isExternal(Attr(attribs, <<"href">>), Attr(attribs, <<"target">>)))

BlockedEmbedAttribs ==
    << [n |-> <<"class">>, v |-> <<"blocked-embed">>],
       [n |-> <<"data-", "blocked-src">>, v |-> <<"iframe-source-not-allowed">>] >>

\* Variant: the attributes of an allowed iframe returned as they came.
IframeResultNoLoading(tagName, attribs, allowed, loading) ==
    IF ~allowed
    THEN [tagName |-> "div", attribs |-> BlockedEmbedAttribs]
    ELSE [tagName |-> tagName, attribs |-> attribs]

\* The return statement of transformTags.iframe, allowed the verdict of
\* isAllowedIframeSrc.
IframeResult(tagName, attribs, allowed, loading) ==
    IF ~allowed
    THEN [tagName |-> "div", attribs |-> BlockedEmbedAttribs]
    ELSE [tagName |-> tagName,
          attribs |-> SetAttr(attribs, <<"loading">>,
                              IF loading # <<>> THEN loading ELSE <<"lazy">>)]

\* transformTags.iframe
TransformIframe(tagName, attribs) ==
    IframeResult(tagName, attribs, isAllowedIframeSrc(Attr(attribs, <<"src">>)),
                 Attr(attribs, <<"loading">>))

(***************************************************************************)
(* Markup Policy                                                           *)
(***************************************************************************)
ALLOWED_URL_SCHEMES == {"http", "https", "mailto", "tel"}

ALLOWED_BLOCK_ELEMENTS ==
    {"article", "section", "nav", "aside", "header", "footer", "h1", "h2", "h3",
     "h4", "h5", "h6", "p", "div", "span", "blockquote", "pre", "code", "ul", "ol",
     "li", "dl", "dt", "dd", "table", "thead", "tbody", "tfoot", "tr", "th", "td",
     "caption", "colgroup", "col", "figure", "figcaption", "address", "main"}

ALLOWED_INLINE_ELEMENTS ==
    {"a", "strong", "em", "b", "i", "u", "s", "mark", "small", "sub", "sup", "abbr",
     "cite", "q", "br", "hr", "wbr", "del", "ins", "kbd", "samp", "var", "time",
     "data", "bdo", "bdi", "ruby", "rt", "rp"}

ALLOWED_MEDIA_ELEMENTS ==
    {"img", "video", "audio", "source", "track", "picture", "iframe"}

ALLOWED_INTERACTIVE_ELEMENTS == {"details", "summary"}

ALLOWED_TAGS ==
    ALLOWED_BLOCK_ELEMENTS \cup ALLOWED_INLINE_ELEMENTS
        \cup ALLOWED_MEDIA_ELEMENTS \cup ALLOWED_INTERACTIVE_ELEMENTS

\* An attribute name of one segment.
Names(S) == {<<n>> : n \in S}

\* ALLOWED_ATTRIBUTES['*'] without its glob entries.
GlobalAttributes == Names({"class", "id", "lang", "dir", "title", "role"})

\* The glob entries of ALLOWED_ATTRIBUTES['*']: 'aria-*' and 'data-*'.
GlobPrefixes == {"aria-", "data-"}

\* has(allowedAttributesMap, tag)
HasAttributeEntry(tag) ==
    tag \in {"a", "img", "video", "audio", "source", "track", "picture", "iframe",
             "table", "th", "td", "col", "colgroup", "blockquote", "q", "cite", "time",
             "data", "abbr", "bdo", "bdi", "details", "summary", "ol", "li"}

\* ALLOWED_ATTRIBUTES[tag]
ALLOWED_ATTRIBUTES(tag) ==
    CASE tag = "a" -> Names({"href", "target", "rel", "hreflang", "type", "download"})
      [] tag = "img" -> Names({"src", "srcset", "sizes", "alt", "width", "height",
                               "loading", "decoding"})
      [] tag = "video" -> Names({"src", "poster", "width", "height", "controls",
                                 "autoplay", "loop", "muted", "playsinline", "preload"})
      [] tag = "audio" -> Names({"src", "controls", "autoplay", "loop", "muted", "preload"})
      [] tag = "source" -> Names({"src", "srcset", "type", "media", "sizes"})
      [] tag = "track" -> Names({"src", "kind", "srclang", "label", "default"})
      [] tag = "iframe" -> Names({"src", "width", "height", "frameborder", "allow",
                                  "allowfullscreen", "loading", "title"})
      [] tag = "table" -> Names({"border", "cellpadding", "cellspacing", "summary"})
      [] tag = "th" -> Names({"scope", "colspan", "rowspan", "headers", "abbr"})
      [] tag = "td" -> Names({"colspan", "rowspan", "headers"})
      [] tag \in {"col", "colgroup"} -> Names({"span"})
      [] tag \in {"blockquote", "q"} -> Names({"cite"})
      [] tag = "time" -> Names({"datetime"})
      [] tag = "data" -> Names({"value"})
      [] tag = "abbr" -> Names({"title"})
      [] tag = "bdo" -> Names({"dir"})
      [] tag = "details" -> Names({"open"})
      [] tag = "ol" -> Names({"start", "reversed", "type"})
      [] tag = "li" -> Names({"value"})
      [] OTHER -> {}

\* allowedSchemesByTag
HasSchemesByTag(tag) == tag \in {"a", "img", "video", "audio", "source", "iframe"}

AllowedSchemesByTag(tag) ==
    CASE tag = "a" -> {"http", "https", "mailto", "tel"}
      [] tag = "iframe" -> {"https"}
      [] OTHER -> {"http", "https"}

(***************************************************************************)
(* sanitize-html, as configured by sanitizeWordPressHtml                   *)
(***************************************************************************)
\* sanitize-html defaults the call leaves in place.
NonTextTags == {"script", "style", "textarea", "option"}

SelfClosing == {"img", "br", "hr", "area", "base", "basefont", "input", "link", "meta"}

MediaTags == {"img", "audio", "video", "picture", "svg", "object", "map", "iframe", "embed"}

AllowedSchemesAppliedToAttributes == Names({"href", "src", "cite"})

AllowedEmptyAttributes == Names({"alt"})

\* The non-boolean attributes sanitize-html drops when their value is empty
\* (those of its default list that the policy can let through).
NonBooleanAttributes ==
    Names({"href", "src", "cite", "poster", "class", "id", "lang", "dir", "title",
           "role", "target", "rel", "hreflang", "type", "srcset", "sizes", "width",
           "height", "loading", "decoding", "preload", "media", "kind", "srclang",
           "label", "allow", "border", "headers", "scope", "colspan", "rowspan",
           "span", "datetime", "value", "start"})

\* Variant: a deny-list of the scripting elements in place of the allow-list.
tagNotDenied(name) == name \notin {"script", "style", "object", "embed"}

tagAllowed(name) == name \in ALLOWED_TAGS

\* naughtyHref(name, href): TRUE when the value's scheme is not allowed.
naughtyHref(name, href) ==
    LET h == Without(href, {Space})
    IN  IF Len(h) >= 2 /\ IsSchemeWord(h[1]) /\ h[2] = ":"
        THEN LET scheme == LowerCase(h[1])
             IN  IF HasSchemesByTag(name)
                 THEN scheme \notin AllowedSchemesByTag(name)
                 ELSE scheme \notin ALLOWED_URL_SCHEMES
        ELSE FALSE

\* The allow-list test of one attribute a of an element named name.
passedAllowedAttributesMapCheck(name, a) ==
    \/ HasAttributeEntry(name) /\ a \in ALLOWED_ATTRIBUTES(name)
    \/ a \in GlobalAttributes
    \/ Len(a) >= 1 /\ a[1] \in GlobPrefixes

\* Variant: the attribute allow-list not consulted.
KeepAttributeAnyName(name, at) ==
    /\ ~(at.v = <<>> /\ at.n \notin AllowedEmptyAttributes /\ at.n \in NonBooleanAttributes)
    /\ ~(at.n \in AllowedSchemesAppliedToAttributes /\ naughtyHref(name, at.v))

\* Whether onopentag writes attribute at (name at.n, value at.v) of element name.
KeepAttribute(name, at) ==
    /\ ~(at.v = <<>> /\ at.n \notin AllowedEmptyAttributes /\ at.n \in NonBooleanAttributes)
    /\ passedAllowedAttributesMapCheck(name, at.n)
    /\ ~(at.n \in AllowedSchemesAppliedToAttributes /\ naughtyHref(name, at.v))

RECURSIVE FilterAttribs(_, _)
FilterAttribs(name, attribs) ==
    IF attribs = <<>> THEN <<>>
    ELSE IF KeepAttribute(name, Head(attribs))
    THEN <<Head(attribs)>> \o FilterAttribs(name, Tail(attribs))
    ELSE FilterAttribs(name, Tail(attribs))

\* transformTags[name](name, attribs), when the call configures one.
TransformTag(name, attribs) ==
    IF name = "a" THEN TransformA(name, attribs)
    ELSE IF name = "iframe" THEN TransformIframe(name, attribs)
    ELSE [tagName |-> name, attribs |-> attribs]

\* text.trim() is empty
IsBlank(text) == \A i \in 1..Len(text) : text[i] = Space

\* exclusiveFilter(frame)
exclusiveFilter(frame) ==
    frame.tag = "p" /\ IsBlank(frame.text) /\ Len(frame.mediaChildren) = 0

\* Function f with key k removed / set.
MapRemove(f, k) == [x \in DOMAIN f \ {k} |-> f[x]]

MapSet(f, k, v) == [x \in DOMAIN f \cup {k} |-> IF x = k THEN v ELSE f[x]]

\* The original tag names of the open frames (kept on output items for the
\* properties: which input elements enclose the item).
Ancestors(S) == [i \in 1..Len(S.stack) |-> S.stack[i].tag]

\* onopentag(name, attribs); idx is the index of the event in the input.
onopentag(S, name, attribs, idx) ==
    IF S.skipText THEN [S EXCEPT !.skipTextDepth = @ + 1]
    ELSE
      LET frame == [tag |-> name, tagPosition |-> Len(S.result), text |-> <<>>,
                    mediaChildren |-> <<>>]
          t == TransformTag(name, attribs)
          skip == ~tagAllowed(t.tagName)
          nonText == skip /\ t.tagName \in NonTextTags
          item == [kind |-> "open", name |-> t.tagName,
                   attribs |-> FilterAttribs(t.tagName, t.attribs),
                   from |-> idx, anc |-> Ancestors(S)]
      IN  [S EXCEPT
             !.stack = Append(@, frame),
             !.transformMap = IF t.tagName # name THEN MapSet(@, S.depth, t.tagName) ELSE @,
             !.skipMap = IF skip THEN @ \cup {S.depth} ELSE @,
             !.skipText = nonText,
             !.skipTextDepth = IF nonText THEN 1 ELSE @,
             !.depth = @ + 1,
             !.result = IF skip THEN @ ELSE Append(@, item)]

\* ontext(text)
ontext(S, text, idx) ==
    IF S.skipText THEN S
    ELSE LET item == [kind |-> "text", text |-> text, from |-> idx, anc |-> Ancestors(S)]
         IN  [S EXCEPT
                !.result = Append(@, item),
                !.stack = IF @ = <<>> THEN @
                          ELSE [S.stack EXCEPT ![Len(S.stack)].text = @ \o text]]

\* frame.updateParentNodeText(), frame.updateParentNodeMediaChildren()
UpdateParent(S, frame, media) ==
    IF S.stack = <<>> THEN S
    ELSE [S EXCEPT
            !.stack[Len(S.stack)].text = @ \o frame.text,
            !.stack[Len(S.stack)].mediaChildren =
                IF media /\ frame.tag \in MediaTags THEN Append(@, frame.tag) ELSE @]

\* onclosetag(name)
onclosetag(S, name) ==
    IF S.skipText /\ S.skipTextDepth > 1 THEN [S EXCEPT !.skipTextDepth = @ - 1]
    ELSE
      LET S1 == IF S.skipText THEN [S EXCEPT !.skipTextDepth = 0, !.skipText = FALSE] ELSE S
      IN  IF S1.stack = <<>> THEN S1
          ELSE
            LET frame == S1.stack[Len(S1.stack)]
                d == S1.depth - 1
                skip == d \in S1.skipMap
                S2 == [S1 EXCEPT !.stack = Take(@, Len(@) - 1), !.skipText = FALSE,
                                 !.depth = d, !.skipMap = @ \ {d}]
                outName == IF d \in DOMAIN S2.transformMap THEN S2.transformMap[d] ELSE name
                S3 == [S2 EXCEPT !.transformMap = MapRemove(@, d)]
                S4 == UpdateParent(S3, frame, TRUE)
            IN  IF frame.tag # name THEN S1
                ELSE IF skip THEN UpdateParent(S2, frame, FALSE)
                ELSE IF exclusiveFilter(frame)
                THEN [S3 EXCEPT !.result = Take(@, frame.tagPosition)]
                ELSE IF outName \in SelfClosing THEN S4
                ELSE [S4 EXCEPT !.result =
                        Append(@, [kind |-> "close", name |-> outName])]

(***************************************************************************)
(* htmlparser2, which drives the three handlers                            *)
(***************************************************************************)
VoidElements ==
    {"area", "base", "basefont", "br", "col", "embed", "hr", "img", "input", "link",
     "meta", "param", "source", "track", "wbr"}

\* Elements whose content the tokenizer reads as raw text.
RawTextTags == {"script", "style"}

FormTags == {"input", "option", "optgroup", "select", "button", "datalist", "textarea"}

\* openImpliesClose: the open elements that the start tag of name closes.
OpenImpliesClose(name) ==
    CASE name = "p" -> {"p"}
      [] name \in {"div", "blockquote", "hr", "ul", "ol", "table", "section", "h1", "h2",
                   "pre"} -> {"p"}
      [] name = "option" -> {"option"}
      [] name = "button" -> FormTags
      [] name = "li" -> {"li"}
      [] OTHER -> {}

\* Variant: decodeEntities off, attribute values passed on as written.
KeepEntities(v) == v

\* decodeEntities: true, on an attribute value.
DecodeEntities(v) == [i \in 1..Len(v) |-> IF v[i] = "&#58;" THEN ":" ELSE v[i]]

\* lowerCaseAttributeNames, on a name.
LowerName(n) == [i \in 1..Len(n) |-> LowerCase(n[i])]

\* The attribs object the parser builds from the raw attributes of a start tag.
ParserAttribs(raw) ==
    [i \in 1..Len(raw) |-> [n |-> LowerName(raw[i].n), v |-> DecodeEntities(raw[i].v)]]

\* The parser and sanitizer state as one record.
Cur ==
    [open |-> open, stack |-> stack, depth |-> depth, skipMap |-> skipMap,
     transformMap |-> transformMap, skipText |-> skipText,
     skipTextDepth |-> skipTextDepth, result |-> result]

Install(S) ==
    /\ open' = S.open
    /\ stack' = S.stack
    /\ depth' = S.depth
    /\ skipMap' = S.skipMap
    /\ transformMap' = S.transformMap
    /\ skipText' = S.skipText
    /\ skipTextDepth' = S.skipTextDepth
    /\ result' = S.result

\* The parser closes its innermost open element.
CloseTop(S) ==
    LET name == S.open[Len(S.open)]
        T == onclosetag(S, name)
    IN  [T EXCEPT !.open = Take(S.open, Len(S.open) - 1)]

\* Variant: only the innermost open element is closed.
CloseInnermost(S, pos) ==
    IF Len(S.open) < pos \/ pos < 1 THEN S ELSE CloseTop(S)

\* The parser closes its open elements down to position pos.
RECURSIVE CloseDownTo(_, _)
CloseDownTo(S, pos) ==
    IF Len(S.open) < pos \/ pos < 1 THEN S ELSE CloseDownTo(CloseTop(S), pos)

\* The implied end tags of a start tag.
RECURSIVE CloseImplied(_, _)
CloseImplied(S, name) ==
    IF S.open # <<>> /\ S.open[Len(S.open)] \in OpenImpliesClose(name)
    THEN CloseImplied(CloseTop(S), name)
    ELSE S

\* A start tag <raw attribs>: implied end tags, onopentag, and for a void
\* element onclosetag at once.
ParserOpenTag(S, raw, rawAttribs, idx) ==
    LET name == LowerCase(raw)
        S1 == CloseImplied(S, name)
        S2 == onopentag(S1, name, ParserAttribs(rawAttribs), idx)
        S3 == [S2 EXCEPT !.open = Append(S1.open, name)]
    IN  IF name \in VoidElements THEN CloseTop(S3) ELSE S3

\* An end tag </name>: the parser closes its open elements down to the
\* innermost one of that name.  With no such element open the end tag is
\* dropped, except </p>, which the parser reads as <p></p>.
ParserCloseTag(S, name, idx) ==
    IF \E i \in 1..Len(S.open) : S.open[i] = name
    THEN CloseDownTo(S, CHOOSE i \in 1..Len(S.open) :
                            /\ S.open[i] = name
                            /\ \A j \in (i + 1)..Len(S.open) : S.open[j] # name)
    ELSE IF name = "p" THEN CloseTop(ParserOpenTag(S, "p", <<>>, idx))
    ELSE S

(***************************************************************************)
(* Inputs                                                                  *)
(***************************************************************************)
\* Number of parser events (start tags, texts, end tags) of one fragment.
MaxEvents == 3

At(n, v) == [n |-> n, v |-> v]

AbsUrl(scheme, host, path) == <<scheme, ":", "/", "/", host, "/", path>>

\* The configured site URLs of the sanitizer runs.
SiteUrls == {<<>>, <<"https", ":", "/", "/", "example.com">>}

\* The configured site URLs of the callback calls: unset, three parsable
\* ones, and one that new URL rejects.
EnvValues ==
    SiteUrls \cup
    {<<"http", ":", "/", "/", "localhost", ":", "3000">>,
     <<"https", ":", "/", "/", "EXAMPLE.COM", ":", "8080">>,
     <<"example.com">>}

\* Start tags: raw tag name and raw attributes, as written in the fragment.
OpenEvents ==
    {[raw |-> "p", attribs |-> <<>>],
     [raw |-> "strong", attribs |-> <<>>],
     [raw |-> "ScRiPt", attribs |-> <<At(<<"src">>, AbsUrl("https", "evil.com", "x"))>>],
     [raw |-> "button", attribs |-> <<At(<<"on", "click">>, <<"alert(1)">>)>>],
     [raw |-> "option", attribs |-> <<>>],
     [raw |-> "div",
      attribs |-> <<At(<<"ON", "click">>, <<"alert(1)">>), At(<<"style">>, <<"x">>),
                    At(<<"class">>, <<"x">>), At(<<"data-", "x">>, <<"x">>)>>],
     [raw |-> "a",
      attribs |-> <<At(<<"href">>, <<Space, "JaVaScRiPt", "&#58;", "alert(1)">>)>>],
     [raw |-> "a",
      attribs |-> <<At(<<"href">>, AbsUrl("https", "evil.com", "example.com")),
                    At(<<"rel">>, <<"nofollow">>)>>],
     [raw |-> "a",
      attribs |-> <<At(<<"href">>, <<"/", "about">>), At(<<"target">>, <<"_blank">>)>>],
     [raw |-> "a",
      attribs |-> <<At(<<"href">>, <<"mailto", ":", "a", "@", "example.com">>),
                    At(<<"rel">>, <<"nofollow">>)>>],
     [raw |-> "img",
      attribs |-> <<At(<<"src">>, <<"data", ":", "text/html,x">>),
                    At(<<"on", "error">>, <<"alert(1)">>), At(<<"alt">>, <<>>)>>],
     [raw |-> "IFRAME",
      attribs |-> <<At(<<"src">>, AbsUrl("https", "www.youtube.com", "embed")),
                    At(<<"width">>, <<"560">>)>>],
     [raw |-> "iframe",
      attribs |-> <<At(<<"src">>, AbsUrl("http", "www.youtube.com", "embed"))>>],
     [raw |-> "iframe",
      attribs |-> <<At(<<"src">>, AbsUrl("https", "unknown.com", "embed")),
                    At(<<"width">>, <<"560">>), At(<<"on", "load">>, <<"alert(1)">>)>>],
     [raw |-> "iframe", attribs |-> <<At(<<"title">>, <<"x">>)>>],
     [raw |-> "video",
      attribs |-> <<At(<<"src">>, AbsUrl("https", "example.com", "x")),
                    At(<<"poster">>, <<"javascript", ":", "alert(1)">>)>>]}

\* End tags written without a start tag.
StrayTags == {"p", "div"}

\* Text nodes: one with visible text, one of whitespace only.
Texts == {<<"x">>, <<Space>>}

NoArg == [tag |-> ""]

NoRet == [called |-> FALSE]

(***************************************************************************)
(* sanitizeWordPressHtml(html)                                             *)
(***************************************************************************)
Init ==
    /\ env \in SiteUrls
    /\ phase = "idle"
    /\ input = <<>>
    /\ open = <<>>
    /\ stack = <<>>
    /\ depth = 0
    /\ skipMap = {}
    /\ transformMap = <<>>
    /\ skipText = FALSE
    /\ skipTextDepth = 0
    /\ result = <<>>
    /\ arg = NoArg
    /\ ret = NoRet

Feeding == phase \in {"idle", "parsing"} /\ Len(input) < MaxEvents

InRawText == open # <<>> /\ open[Len(open)] \in RawTextTags

\* if (!html) return '': null, undefined and the empty string.
SanitizeEmpty ==
    /\ phase = "idle"
    /\ phase' = "done"
    /\ UNCHANGED <<env, input, open, stack, depth, skipMap, transformMap, skipText,
                   skipTextDepth, result, arg, ret>>

\* The parser reads a start tag.  The event is recorded with the elements
\* open around it (anc), for the properties.
OpenTag ==
    /\ Feeding
    /\ ~InRawText
    /\ \E ev \in OpenEvents :
        /\ input' = Append(input, [kind |-> "open", raw |-> ev.raw, attribs |-> ev.attribs,
                                    anc |-> CloseImplied(Cur, LowerCase(ev.raw)).open])
        /\ Install(ParserOpenTag(Cur, ev.raw, ev.attribs, Len(input) + 1))
    /\ phase' = "parsing"
    /\ UNCHANGED <<env, arg, ret>>

\* The parser reads text.
Text ==
    /\ Feeding
    /\ \E t \in Texts :
        /\ input' = Append(input, [kind |-> "text", text |-> t])
        /\ Install(ontext(Cur, t, Len(input) + 1))
    /\ phase' = "parsing"
    /\ UNCHANGED <<env, arg, ret>>

\* The parser reads an end tag </name> of an open element: it closes the
\* open elements down to the innermost one of that name.
CloseTag ==
    /\ Feeding
    /\ open # <<>>
    /\ \E pos \in 1..Len(open) :
        /\ \A j \in (pos + 1)..Len(open) : open[j] # open[pos]
        /\ InRawText => pos = Len(open)
        /\ input' = Append(input, [kind |-> "close", name |-> open[pos]])
        /\ Install(CloseDownTo(Cur, pos))
    /\ phase' = "parsing"
    /\ UNCHANGED <<env, arg, ret>>

\* The parser reads an end tag </name> with no element of that name open.
StrayCloseTag ==
    /\ Feeding
    /\ ~InRawText
    /\ \E name \in StrayTags :
        /\ \A j \in 1..Len(open) : open[j] # name
        /\ input' = Append(input, [kind |-> "stray", name |-> name])
        /\ Install(ParserCloseTag(Cur, name, Len(input) + 1))
    /\ phase' = "parsing"
    /\ UNCHANGED <<env, arg, ret>>

\* parser.end(): the elements still open are closed, sanitizeHtml returns result.
End ==
    /\ phase = "parsing"
    /\ Install(CloseDownTo(Cur, 1))
    /\ phase' = "done"
    /\ UNCHANGED <<env, input, arg, ret>>

Next == SanitizeEmpty \/ OpenTag \/ Text \/ CloseTag \/ StrayCloseTag \/ End

Spec == Init /\ [][Next]_vars

(***************************************************************************)
(* Single elements: sanitizeWordPressHtml on a fragment of one <a> or one  *)
(* <iframe>, over a wide range of URLs.  A URL is written from its parts   *)
(* (its shape), so that what the parser makes of it can be compared with   *)
(* the parts it was written from.                                          *)
(***************************************************************************)
LinkHosts == {"example.com", "EXAMPLE.COM", "evil.com", "example.com.evil.com", "localhost"}

EmbedHosts ==
    {"www.youtube.com", "WWW.YOUTUBE.COM", "youtube.com", "evil.youtube.com",
     "www.youtube.com.attacker.com", "player.vimeo.com", "evil.com"}

\* What follows the authority: nothing, a path, a query or a fragment, each
\* naming the site's domain.
Tails ==
    {<<>>, <<"/", "example.com">>, <<"?", "x", "=", "example.com">>,
     <<"#", "example.com">>}

\* URLs with an authority: [lead space] [scheme ":"] "//" [userinfo "@"] host
\* [":" port] tail.  The scheme "" gives a protocol-relative URL.
UrlShapes(hosts) ==
    [kind : {"url"}, lead : BOOLEAN, scheme : {"https", "HTTPS", "http", ""},
     user : BOOLEAN, host : hosts, port : {"", "8080"}, tail : Tails]

Serialize(c) ==
    (IF c.lead THEN <<Space>> ELSE <<>>)
        \o (IF c.scheme = "" THEN <<>> ELSE <<c.scheme, ":">>)
        \o <<"/", "/">>
        \o (IF c.user THEN <<"example.com", ":", "pw", "@">> ELSE <<>>)
        \o <<c.host>>
        \o (IF c.port = "" THEN <<>> ELSE <<":", c.port>>)
        \o c.tail

RawShape(class, str) == [kind |-> "raw", class |-> class, str |-> str]

\* Other href values, by class: "none" (no href attribute), "empty", "path"
\* (a single leading "/"), "fragment", "mail" (mailto: or tel:), "relative"
\* (resolves against the site URL), "noslash" (https: without slashes: relative
\* to an https site URL, and the host evil.com otherwise), "hostless" (parses,
\* without a host) and "bad" (new URL throws).
RawHrefs ==
    {RawShape("none", <<>>),
     RawShape("empty", <<>>),
     RawShape("path", <<"/", "about">>),
     RawShape("path", <<"/", "\\", "evil.com">>),
     RawShape("fragment", <<"#", "section">>),
     RawShape("mail", <<"mailto", ":", "a", "@", "example.com">>),
     RawShape("mail", <<"tel", ":", "+123">>),
     RawShape("hostless", <<"MAILTO", ":", "a", "@", "example.com">>),
     RawShape("hostless", <<"javascript", ":", "alert(1)">>),
     RawShape("relative", <<"about">>),
     RawShape("relative", <<"?", "x", "=", "evil.com">>),
     RawShape("noslash", <<"https", ":", "evil.com">>),
     RawShape("bad", <<"https", ":", "/", "/">>),
     RawShape("bad", <<"https", ":", "/", "/", "evil.com", ":", "x">>)}

\* Other iframe src values: none, empty, and strings that are no absolute URL.
RawSrcs ==
    {RawShape("none", <<>>),
     RawShape("empty", <<>>),
     RawShape("bad", <<"not-a-valid-url">>),
     RawShape("bad", <<"/", "embed", "/", "x">>),
     RawShape("hostless", <<"javascript", ":", "alert(1)">>)}

ShapeStr(c) == IF c.kind = "url" THEN Serialize(c) ELSE c.str

Targets == {<<>>, <<"_blank">>, <<"_self">>}

\* rel values: none, one token, a token list that already holds noopener, a
\* list with a repeated token and two spaces, and noreferrer alone.
Rels ==
    {<<>>, <<"nofollow">>, <<"noopener", Space, "nofollow">>,
     <<"nofollow", Space, Space, "nofollow">>, <<"noreferrer">>}

Loadings == {<<>>, <<"eager">>}

\* An attribute, unless it is left out.
Opt(n, v, present) == IF present THEN <<At(n, v)>> ELSE <<>>

AnchorArgs ==
    {[tag |-> "a", shape |-> c,
      attribs |-> Opt(<<"href">>, ShapeStr(c), c.kind = "url" \/ c.class # "none")
                    \o Opt(<<"target">>, t, t # <<>>) \o Opt(<<"rel">>, r, r # <<>>)] :
        c \in UrlShapes(LinkHosts) \cup RawHrefs, t \in Targets, r \in Rels}

IframeArgs ==
    {[tag |-> "iframe", shape |-> c,
      attribs |-> Opt(<<"src">>, ShapeStr(c), c.kind = "url" \/ c.class # "none")
                    \o Opt(<<"loading">>, l, l # <<>>)] :
        c \in UrlShapes(EmbedHosts) \cup RawSrcs, l \in Loadings}

InitElement ==
    /\ env \in EnvValues
    /\ phase = "idle"
    /\ input = <<>>
    /\ open = <<>>
    /\ stack = <<>>
    /\ depth = 0
    /\ skipMap = {}
    /\ transformMap = <<>>
    /\ skipText = FALSE
    /\ skipTextDepth = 0
    /\ result = <<>>
    /\ arg \in AnchorArgs \cup IframeArgs
    /\ ret = NoRet

\* sanitizeWordPressHtml on the fragment that is the one element arg.
SanitizeElement ==
    /\ input' = <<[kind |-> "open", raw |-> arg.tag, attribs |-> arg.attribs, anc |-> <<>>]>>
    /\ Install(CloseDownTo(ParserOpenTag(Cur, arg.tag, arg.attribs, 1), 1))
    /\ phase' = "done"
    /\ UNCHANGED <<env, arg>>

SanitizeAnchor ==
    /\ phase = "idle"
    /\ arg.tag = "a"
    /\ ret' = [called |-> TRUE,
               isExternal |-> TransformA("a", ParserAttribs(arg.attribs)).isExternal]
    /\ SanitizeElement

SanitizeIframe ==
    /\ phase = "idle"
    /\ arg.tag = "iframe"
    /\ ret' = [called |-> TRUE,
               allowed |-> isAllowedIframeSrc(Attr(ParserAttribs(arg.attribs), <<"src">>))]
    /\ SanitizeElement

NextElement == SanitizeAnchor \/ SanitizeIframe

SpecElement == InitElement /\ [][NextElement]_vars

(***************************************************************************)
(* sanitizeWordPressHtml on a fragment given as a list of markup items     *)
(***************************************************************************)
\* The state of sanitizeHtml when it starts.
Fresh ==
    [open |-> <<>>, stack |-> <<>>, depth |-> 0, skipMap |-> {}, transformMap |-> <<>>,
     skipText |-> FALSE, skipTextDepth |-> 0, result |-> <<>>]

\* One item of markup read by the parser.
ParserItem(S, item, idx) ==
    CASE item.kind = "open" -> ParserOpenTag(S, item.name, item.attribs, idx)
      [] item.kind = "text" -> ontext(S, item.text, idx)
      [] item.kind = "close" -> ParserCloseTag(S, item.name, idx)

\* The items from index idx on, then parser.end().
RECURSIVE ParserRun(_, _, _)
ParserRun(S, items, idx) ==
    IF idx > Len(items) THEN CloseDownTo(S, 1)
    ELSE ParserRun(ParserItem(S, items[idx], idx), items, idx + 1)

\* The markup of an output: its items without the bookkeeping of the model.
Markup(items) ==
    [i \in 1..Len(items) |->
        CASE items[i].kind = "open" ->
                [kind |-> "open", name |-> items[i].name, attribs |-> items[i].attribs]
          [] items[i].kind = "text" -> [kind |-> "text", text |-> items[i].text]
          [] items[i].kind = "close" -> [kind |-> "close", name |-> items[i].name]]

\* sanitizeWordPressHtml(html) for the html that serializes items.
Sanitize(items) == IF items = <<>> THEN <<>> ELSE ParserRun(Fresh, items, 1).result

(***************************************************************************)
(* Slug validator and route builders.  A slug is a sequence of characters. *)
(***************************************************************************)
Tab == "\t"

\* The character U+0000.
Nul == "NUL"

\* A character outside ASCII.
EAcute == "U+00E9"

\* The characters String.prototype.trim removes, among those in use.
WhiteSpace == {Space, Tab}

\* s.includes(sub)
Includes(s, sub) ==
    \E i \in 0..(Len(s) - Len(sub)) : SubSeq(s, i + 1, i + Len(sub)) = sub

\* Variant: without the check of the trimmed slug.
isValidSlugNoTrim(slug) ==
    IF slug = <<>> THEN FALSE
    ELSE IF Includes(slug, <<".", ".">>) THEN FALSE
    ELSE IF StartsWith(slug, <<"/">>) THEN FALSE
    ELSE IF Includes(slug, <<"\\">>) THEN FALSE
    ELSE IF Includes(slug, <<Nul>>) THEN FALSE
    ELSE TRUE

\* isValidSlug(slug); null and undefined are the empty sequence here, which
\* !slug treats alike.
isValidSlug(slug) ==
    IF slug = <<>> THEN FALSE
    ELSE IF \A i \in 1..Len(slug) : slug[i] \in WhiteSpace THEN FALSE
    ELSE IF Includes(slug, <<".", ".">>) THEN FALSE
    ELSE IF StartsWith(slug, <<"/">>) THEN FALSE
    ELSE IF Includes(slug, <<"\\">>) THEN FALSE
    ELSE IF Includes(slug, <<Nul>>) THEN FALSE
    ELSE TRUE

\* The escape of one character by encodeURIComponent: letters, digits and
\* - _ . ! ~ * ' ( ) stay, every other character becomes the %XX of its
\* UTF-8 bytes.
EscapeChar(c) ==
    CASE c \in {"a", "."} -> c
      [] c = "/" -> "%2F"
      [] c = "?" -> "%3F"
      [] c = "#" -> "%23"
      [] c = "%" -> "%25"
      [] c = Space -> "%20"
      [] c = Tab -> "%09"
      [] c = "\\" -> "%5C"
      [] c = Nul -> "%00"
      [] c = EAcute -> "%C3%A9"

\* Variant: encodeURI, which leaves the characters reserved in URLs as they are.
encodeURI(str) ==
    [i \in 1..Len(str) |-> IF str[i] \in {"/", "?", "#"} THEN str[i] ELSE EscapeChar(str[i])]

\* encodeURIComponent(str)
encodeURIComponent(str) == [i \in 1..Len(str) |-> EscapeChar(str[i])]

\* The fallback route.
BlogRoute == <<"/", "blog">>

\* A record argument: null or undefined, a record without slug, or a record
\* with the slug rec.slug.
HasSlug(rec) == rec.kind = "slug" /\ rec.slug # <<>>

\* The body the four route builders share: prefix is the route prefix.
RouteFor(prefix, rec, valid) ==
    IF ~valid THEN BlogRoute ELSE prefix \o encodeURIComponent(rec.slug)

getCategoryUrl(category) ==
    RouteFor(<<"/", "blog", "/", "category", "/">>, category,
             HasSlug(category) /\ isValidSlug(category.slug))

getAuthorUrl(author) ==
    RouteFor(<<"/", "blog", "/", "author", "/">>, author,
             HasSlug(author) /\ isValidSlug(author.slug))

getPostUrl(post) ==
    RouteFor(<<"/", "blog", "/">>, post, HasSlug(post) /\ isValidSlug(post.slug))

getTagUrl(tag) ==
    RouteFor(<<"/", "blog", "/", "tag", "/">>, tag, HasSlug(tag) /\ isValidSlug(tag.slug))

\* null
Null == [isNull |-> TRUE, slug |-> <<>>]

Some(slug) == [isNull |-> FALSE, slug |-> slug]

\* str.split('/')
RECURSIVE Split(_)
Split(str) ==
    IF "/" \notin Range(str) THEN <<str>>
    ELSE <<Take(str, FirstIn(str, {"/"}) - 1)>> \o Split(Drop(str, FirstIn(str, {"/"})))

\* The path state of the URL parser on the segments still to read: a "."
\* segment is dropped, a ".." segment removes the segment before it.
RECURSIVE PathState(_, _)
PathState(segments, path) ==
    IF segments = <<>> THEN path
    ELSE IF Head(segments) = <<".">> THEN PathState(Tail(segments), path)
    ELSE IF Head(segments) = <<".", ".">>
    THEN PathState(Tail(segments), Take(path, Len(path) - 1))
    ELSE PathState(Tail(segments), Append(path, Head(segments)))

\* The segments of url.pathname, for wpUrl of the shape scheme://authority
\* followed by a path, a query and a fragment, with a special scheme.
PathSegments(wpUrl) ==
    PathState(Split(Take(Drop(wpUrl, 5), FirstIn(Drop(wpUrl, 5), {"?", "#"}) - 1)), <<>>)

IsSegment(seg) == seg # <<>>

\* pathSegments[pathSegments.length - 1] || null, after filter(Boolean)
LastSegment(segments) ==
    IF SelectSeq(segments, IsSegment) = <<>> THEN Null
    ELSE Some(SelectSeq(segments, IsSegment)[Len(SelectSeq(segments, IsSegment))])

\* wpUrl.match(/\/([^/]+)\/?$/) on str, which is wpUrl without one final "/":
\* the match is what follows the last "/" of str, when that is not empty.
RegexMatch(str) ==
    IF LastIn(str, {"/"}) >= 1 /\ LastIn(str, {"/"}) < Len(str)
    THEN Some(Drop(str, LastIn(str, {"/"})))
    ELSE Null

RegexSlug(wpUrl) ==
    RegexMatch(IF wpUrl[Len(wpUrl)] = "/" THEN Take(wpUrl, Len(wpUrl) - 1) ELSE wpUrl)

\* Variant: the extracted segment returned without validation.
ValidatedSlugUnchecked(found) == found

\* if (slug && !isValidSlug(slug)) return null; return slug
ValidatedSlug(found) == IF ~found.isNull /\ ~isValidSlug(found.slug) THEN Null ELSE found

\* The try block and the catch block, for the outcome url of new URL(wpUrl).
ExtractWith(wpUrl, url) ==
    ValidatedSlug(IF url.ok THEN LastSegment(PathSegments(wpUrl)) ELSE RegexSlug(wpUrl))

extractSlugFromUrl(wpUrl) ==
    IF wpUrl = <<>> THEN Null ELSE ExtractWith(wpUrl, ParseURL(wpUrl, NoBase))

(***************************************************************************)
(* Calls of the slug functions                                             *)
(***************************************************************************)
\* Longest slug and longest URL tail of the calls.
MaxSlugLen == 3

MaxTailLen == 5

\* The sequences over S of length at most n.
SeqsUpTo(S, n) == UNION {[1..k -> S] : k \in 0..n}

SlugChars == {"a", ".", "/", "\\", Nul, Space, Tab, EAcute, "%", "?", "#"}

Slugs == SeqsUpTo(SlugChars, MaxSlugLen)

\* The record arguments: null or undefined, a record without slug, records
\* with a slug.
Records ==
    {[kind |-> "null", slug |-> <<>>], [kind |-> "noslug", slug |-> <<>>]}
        \cup {[kind |-> "slug", slug |-> sl] : sl \in Slugs}

RouteBuilders == {"getCategoryUrl", "getAuthorUrl", "getPostUrl", "getTagUrl"}

\* What a URL starts with: nothing (a path), a word that is no scheme, or
\* scheme and host.
UrlStarts == {<<>>, <<"not-a-url">>, <<"https", ":", "/", "/", "wp.example.com">>}

TailChars == {"a", ".", "/", "?", "#"}

\* What follows: path, query and fragment; after a start it begins with a
\* delimiter.
UrlTails(start) ==
    {t \in SeqsUpTo(TailChars, MaxTailLen) :
        (start # <<>> /\ t # <<>>) => t[1] \in {"/", "?", "#"}}

SlugArgs ==
    {[fn |-> "isValidSlug", slug |-> sl] : sl \in Slugs}
        \cup {[fn |-> f, rec |-> r] : f \in RouteBuilders, r \in Records}
        \cup UNION {{[fn |-> "extractSlugFromUrl", start |-> st, tail |-> t, wpUrl |-> st \o t] :
                        t \in UrlTails(st)} : st \in UrlStarts}

InitSlug ==
    /\ env = <<>>
    /\ phase = "idle"
    /\ input = <<>>
    /\ open = <<>>
    /\ stack = <<>>
    /\ depth = 0
    /\ skipMap = {}
    /\ transformMap = <<>>
    /\ skipText = FALSE
    /\ skipTextDepth = 0
    /\ result = <<>>
    /\ arg \in SlugArgs
    /\ ret = NoRet

\* A call of fn returns value.
Return(fn, value) ==
    /\ phase = "idle"
    /\ arg.fn = fn
    /\ ret' = [called |-> TRUE, value |-> value]
    /\ phase' = "done"
    /\ UNCHANGED <<env, input, open, stack, depth, skipMap, transformMap, skipText,
                   skipTextDepth, result, arg>>

CallIsValidSlug == arg.fn = "isValidSlug" /\ Return("isValidSlug", isValidSlug(arg.slug))

CallGetCategoryUrl ==
    arg.fn = "getCategoryUrl" /\ Return("getCategoryUrl", getCategoryUrl(arg.rec))

CallGetAuthorUrl == arg.fn = "getAuthorUrl" /\ Return("getAuthorUrl", getAuthorUrl(arg.rec))

CallGetPostUrl == arg.fn = "getPostUrl" /\ Return("getPostUrl", getPostUrl(arg.rec))

CallGetTagUrl == arg.fn = "getTagUrl" /\ Return("getTagUrl", getTagUrl(arg.rec))

CallExtractSlugFromUrl ==
    /\ arg.fn = "extractSlugFromUrl"
    /\ Return("extractSlugFromUrl", extractSlugFromUrl(arg.wpUrl))

NextSlug ==
    \/ CallIsValidSlug
    \/ CallGetCategoryUrl
    \/ CallGetAuthorUrl
    \/ CallGetPostUrl
    \/ CallGetTagUrl
    \/ CallExtractSlugFromUrl

SpecSlug == InitSlug /\ [][NextSlug]_vars

(***************************************************************************)
(* Properties                                                              *)
(***************************************************************************)
\* The start tags of the output.
OpenItems == {i \in 1..Len(result) : result[i].kind = "open"}

\* The start tags of the input.
OpenInputs == {i \in 1..Len(input) : input[i].kind = "open"}

\* The scheme of a URL value as a browser reads it from markup: white space
\* ignored, the colon written as such or as &#58;, lower-cased; "" when the
\* value has none.
SchemeOf(v) ==
    LET h == Without(v, {Space})
    IN  IF Len(h) >= 2 /\ IsWord(h[1]) /\ h[2] \in {":", "&#58;"}
        THEN LowerCase(h[1])
        ELSE ""

\* The tokens of a rel value.
RelSet(attribs) == Range(Without(Attr(attribs, <<"rel">>), {Space}))

\* C1: every element of the output of sanitize has a tag name in AllowedTags,
\* and none is a script element, whatever the letter case of the input tag.
C1_OutputTagsAllowed ==
    \A i \in 1..Len(result) :
        result[i].kind \in {"open", "close"} =>
            result[i].name \in ALLOWED_TAGS /\ result[i].name # "script"

\* C1 witness: a fragment with a <ScRiPt> and a <button> element has been
\* sanitized to a non-empty output.
C1_Witness ==
    /\ phase = "done"
    /\ \E i \in OpenInputs : input[i].raw = "ScRiPt"
    /\ \E i \in OpenInputs : input[i].raw = "button"
    /\ OpenItems # {}

\* C2: every attribute of every element of the output is in the element's
\* own allow-list or is a global attribute (class, id, lang, dir, title,
\* role, aria-*, data-*); no on* attribute and no style attribute is output.
C2_OutputAttributesAllowed ==
    \A i \in OpenItems :
        \A k \in 1..Len(result[i].attribs) :
            LET a == result[i].attribs[k].n
            IN  /\ \/ a \in ALLOWED_ATTRIBUTES(result[i].name)
                   \/ a \in Names({"class", "id", "lang", "dir", "title", "role"})
                   \/ a[1] \in {"aria-", "data-"}
                /\ a[1] # "on"
                /\ a # <<"style">>

\* C2 witness: a <div> with onclick, style, class and data-x attributes has
\* been output with its class and data-x attributes.
C2_Witness ==
    /\ phase = "done"
    /\ \E i \in OpenItems :
        /\ result[i].name = "div"
        /\ input[result[i].from].raw = "div"
        /\ HasAttr(input[result[i].from].attribs, <<"ON", "click">>)
        /\ HasAttr(result[i].attribs, <<"data-", "x">>)

\* C3: no href and no src attribute of the output has the scheme javascript
\* or data, also when the input wrote the scheme in another letter case,
\* after white space, or with its colon as a character reference.
C3_NoScriptableUrl ==
    \A i \in OpenItems :
        \A k \in 1..Len(result[i].attribs) :
            result[i].attribs[k].n \in {<<"href">>, <<"src">>} =>
                SchemeOf(result[i].attribs[k].v) \notin {"javascript", "data"}

\* C3 witness: an <a> whose href is " JaVaScRiPt&#58;alert(1)" survives in
\* the output, without its href.
C3_Witness ==
    /\ phase = "done"
    /\ \E i \in OpenItems :
        /\ result[i].name = "a"
        /\ SchemeOf(Attr(input[result[i].from].attribs, <<"href">>)) = "javascript"
        /\ ~HasAttr(result[i].attribs, <<"href">>)

\* C4 (as claimed): nothing of the output comes from inside an element whose
\* tag name is not in AllowedTags: neither a descendant element nor text.
C4_DisallowedSubtreeDropped ==
    \A i \in 1..Len(result) :
        result[i].kind \in {"open", "text"} =>
            \A k \in 1..Len(result[i].anc) : result[i].anc[k] \in ALLOWED_TAGS

\* C5 (as claimed): every iframe of the output has a non-empty src whose
\* scheme is https and whose host is one of the Allowed Embed Hosts.
C5_OutputIframesTrusted ==
    \A i \in OpenItems :
        result[i].name = "iframe" =>
            LET src == Attr(result[i].attribs, <<"src">>)
            IN  /\ src # <<>>
                /\ SchemeOf(src) = "https"
                /\ isAllowedIframeSrc(src)

\* The input start tag i is an iframe that the Embed Origin Guard rejects.
BlockedIframeInput(i) ==
    /\ input[i].kind = "open"
    /\ LowerCase(input[i].raw) = "iframe"
    /\ ~isAllowedIframeSrc(Attr(ParserAttribs(input[i].attribs), <<"src">>))

\* The output item j is the placeholder of a blocked iframe: a non-iframe
\* element with class blocked-embed, a data-blocked-src attribute, and
\* nothing else.
IsPlaceholder(j) ==
    /\ result[j].kind = "open"
    /\ result[j].name # "iframe"
    /\ Attr(result[j].attribs, <<"class">>) = <<"blocked-embed">>
    /\ HasAttr(result[j].attribs, <<"data-", "blocked-src">>)
    /\ Len(result[j].attribs) = 2

\* C6 (as claimed): when sanitize returns, every input iframe that the guard
\* rejects, and that does not lie inside an element sanitize discards, has
\* its placeholder in the output, with none of the iframe's own attributes.
C6_BlockedIframeHasPlaceholder ==
    phase = "done" =>
        \A i \in OpenInputs :
            (BlockedIframeInput(i)
                /\ \A k \in 1..Len(input[i].anc) : input[i].anc[k] \in ALLOWED_TAGS)
            => \E j \in OpenItems : result[j].from = i /\ IsPlaceholder(j)

(***************************************************************************)
(* Properties of the two callbacks, on one element                        *)
(***************************************************************************)
\* The element under test is an <a> (an <iframe>) and has been sanitized.
AnchorDone == ret.called /\ arg.tag = "a"

IframeDone == ret.called /\ arg.tag = "iframe"

\* The hostname of the configured site URL, as written in it, lower-cased;
\* SiteParsable tells whether the configured value is an absolute URL at all.
SiteParsable == env = <<>> \/ Len(env) >= 5

SiteHostname ==
    IF env = <<>> THEN "localhost" ELSE IF Len(env) >= 5 THEN LowerCase(env[5]) ELSE ""

SiteScheme == IF env = <<>> THEN "http" ELSE LowerCase(env[1])

\* The target and the rel of the <a> under test, and of the <a> of the output.
TargetIn == Attr(arg.attribs, <<"target">>)

RelIn == Attr(arg.attribs, <<"rel">>)

RelOut == Attr(result[1].attribs, <<"rel">>)

\* C7: isAllowedIframeSrc(src) is true exactly when src is an absolute URL
\* and its hostname, lower-cased, is one of the Allowed Embed Hosts; the
\* userinfo, port, path, query and fragment of src do not matter.
C7_AllowedIffHostListed ==
    IframeDone =>
        ret.allowed = (/\ arg.shape.kind = "url"
                       /\ arg.shape.scheme # ""
                       /\ LowerCase(arg.shape.host) \in ALLOWED_IFRAME_HOSTS)

\* C7 witness: a src whose host only starts with an allowed host, behind
\* userinfo, has been rejected.
C7_Witness ==
    /\ IframeDone
    /\ arg.shape.kind = "url"
    /\ arg.shape.host = "www.youtube.com.attacker.com"
    /\ arg.shape.scheme = "https"
    /\ arg.shape.user
    /\ ~ret.allowed

\* C8: with a target other than _blank and a parsable site URL, an href that
\* no earlier rule decides and that parses is external exactly when its
\* hostname differs from the site's: the site's domain in the userinfo, path,
\* query or fragment, or as leading label of another host, does not make a
\* link internal, and a foreign host after "//" is external.
C8_ExternalIffHostnameDiffers ==
    (AnchorDone /\ TargetIn # <<"_blank">> /\ SiteParsable) =>
        /\ arg.shape.kind = "url" =>
              ret.isExternal = (LowerCase(arg.shape.host) # SiteHostname)
        /\ (arg.shape.kind = "raw" /\ arg.shape.class = "relative") => ~ret.isExternal
        /\ (arg.shape.kind = "raw" /\ arg.shape.class = "hostless") => ret.isExternal
        /\ (arg.shape.kind = "raw" /\ arg.shape.class = "noslash") =>
              ret.isExternal = (SiteScheme # "https")

\* C8 witness: //example.com:pw@evil.com/example.com, with the site at
\* example.com, has been classified external.
C8_Witness ==
    /\ AnchorDone
    /\ TargetIn # <<"_blank">>
    /\ SiteHostname = "example.com"
    /\ arg.shape.kind = "url"
    /\ arg.shape.scheme = ""
    /\ arg.shape.user
    /\ arg.shape.host = "evil.com"
    /\ arg.shape.tail = <<"/", "example.com">>
    /\ ret.isExternal

\* C9: an <a> with target="_blank" is external whatever its href, and its
\* rel in the output holds noopener and noreferrer.
C9_BlankTargetIsExternal ==
    (AnchorDone /\ TargetIn = <<"_blank">>) =>
        /\ ret.isExternal
        /\ result[1].name = "a"
        /\ {"noopener", "noreferrer"} \subseteq RelSet(result[1].attribs)

\* C9 witness: <a href="/about" target="_blank" rel="nofollow"> has been
\* output with rel nofollow, noopener and noreferrer.
C9_Witness ==
    /\ AnchorDone
    /\ TargetIn = <<"_blank">>
    /\ arg.shape.kind = "raw"
    /\ arg.shape.class = "path"
    /\ RelSet(result[1].attribs) = {"nofollow", "noopener", "noreferrer"}

\* The href cases of C10.
InternalCase ==
    IF arg.shape.kind = "raw"
    THEN arg.shape.class \in {"none", "empty", "path", "fragment", "mail"}
    ELSE /\ arg.shape.scheme # ""
         /\ SiteParsable
         /\ LowerCase(arg.shape.host) = SiteHostname

\* C10: with a target other than _blank, an <a> is internal when its href is
\* missing or empty, begins with a single "/", begins with "#", begins with
\* mailto: or tel:, or is absolute with the site's hostname on any port; the
\* rel of the output is then the rel of the input.
C10_InternalLinksKeepRel ==
    (AnchorDone /\ TargetIn # <<"_blank">> /\ InternalCase) =>
        /\ ~ret.isExternal
        /\ result[1].name = "a"
        /\ RelOut = RelIn

\* C10 witness: <a href="mailto:a@example.com" rel="nofollow"> has been
\* output with rel="nofollow".
C10_Witness ==
    /\ AnchorDone
    /\ TargetIn = <<>>
    /\ arg.shape.kind = "raw"
    /\ arg.shape.class = "mail"
    /\ RelOut = <<"nofollow">>
    /\ ~ret.isExternal

\* The href of the <a> under test is one that new URL rejects.
BadHref == arg.shape.kind = "raw" /\ arg.shape.class = "bad"

\* C11 (as claimed): an href that new URL rejects, and that no earlier rule
\* decides, is classified external.
C11_UnparsableIsExternal ==
    (AnchorDone /\ BadHref) => ret.isExternal

\* C11 (amended): with a target other than _blank, an href that new URL
\* rejects, and that no earlier rule decides, is classified internal.
C11_UnparsableIsInternal ==
    (AnchorDone /\ BadHref /\ TargetIn # <<"_blank">>) => ~ret.isExternal

\* C11 witness: href="https://evil.com:x", whose port is no number, with a
\* parsable site URL and no target, has been classified internal.
C11_Witness ==
    /\ AnchorDone
    /\ BadHref
    /\ arg.shape.str = <<"https", ":", "/", "/", "evil.com", ":", "x">>
    /\ TargetIn = <<>>
    /\ SiteParsable
    /\ ~ret.isExternal

\* new URL throws in the link classification: the href or the site URL is
\* rejected, and no earlier rule has decided.
LinkParseFails ==
    \/ BadHref
    \/ /\ ~SiteParsable
       /\ arg.shape.kind = "raw" =>
            arg.shape.class \in {"relative", "noslash", "hostless", "bad"}

\* new URL(src) throws in isAllowedIframeSrc: src is missing, empty, or no
\* absolute URL.
EmbedParseFails ==
    IF arg.shape.kind = "raw"
    THEN arg.shape.class \in {"none", "empty", "bad"}
    ELSE arg.shape.scheme = ""

\* C12: when new URL throws in the link classification, the link is internal
\* and the <a> is output with the rel it had; when new URL throws in
\* isAllowedIframeSrc, the iframe is blocked and its placeholder is output.
\* Both calls return.
C12_FailureDefaults ==
    /\ (AnchorDone /\ TargetIn # <<"_blank">> /\ LinkParseFails) =>
          /\ ~ret.isExternal
          /\ phase = "done"
          /\ result[1].name = "a"
          /\ RelOut = RelIn
    /\ (IframeDone /\ EmbedParseFails) =>
          /\ ~ret.allowed
          /\ phase = "done"
          /\ result[1].name = "div"
          /\ result[1].attribs = BlockedEmbedAttribs

\* C12 witness: src="//www.youtube.com", an allowed host without a scheme,
\* has been blocked.
C12_Witness ==
    /\ IframeDone
    /\ arg.shape.kind = "url"
    /\ arg.shape.scheme = ""
    /\ arg.shape.host = "www.youtube.com"
    /\ ~arg.shape.user
    /\ ~ret.allowed
    /\ result[1].name = "div"

\* The tokens of the rel of the output, in order.
RelOutTokens == Without(RelOut, {Space})

\* How often token t occurs in the rel of the output.
RelOutCount(t) == Cardinality({i \in 1..Len(RelOutTokens) : RelOutTokens[i] = t})

\* C13: the rel of an <a> classified external is, in the output, a list of
\* tokens separated by single spaces, in which no token occurs twice, and
\* whose tokens are noopener, noreferrer and the tokens of the input rel.
C13_ExternalRelMerged ==
    (AnchorDone /\ ret.isExternal) =>
        /\ result[1].name = "a"
        /\ Len(RelOut) = 2 * Len(RelOutTokens) - 1
        /\ \A i \in 1..Len(RelOut) : (RelOut[i] = Space) = (i % 2 = 0)
        /\ RelOutCount("noopener") = 1
        /\ RelOutCount("noreferrer") = 1
        /\ \A t \in RelSet(arg.attribs) : RelOutCount(t) = 1
        /\ Range(RelOutTokens) = RelSet(arg.attribs) \cup {"noopener", "noreferrer"}

\* C13 witness: an external link with rel="noopener nofollow" has been output
\* with rel="noopener nofollow noreferrer".
C13_Witness ==
    /\ AnchorDone
    /\ ret.isExternal
    /\ TargetIn # <<"_blank">>
    /\ RelIn = <<"noopener", Space, "nofollow">>
    /\ RelOut = <<"noopener", Space, "nofollow", Space, "noreferrer">>

\* C14: the rel of an <a> classified internal is not touched: absent in the
\* output when absent in the input, and else the input value as written.
C14_InternalRelUntouched ==
    (AnchorDone /\ ~ret.isExternal) =>
        /\ result[1].name = "a"
        /\ HasAttr(result[1].attribs, <<"rel">>) = HasAttr(arg.attribs, <<"rel">>)
        /\ RelOut = RelIn

\* C14 witness: an internal link to the site's own host, with
\* rel="nofollow  nofollow", has been output with that rel.
C14_Witness ==
    /\ AnchorDone
    /\ ~ret.isExternal
    /\ arg.shape.kind = "url"
    /\ arg.shape.scheme = "https"
    /\ RelIn = <<"nofollow", Space, Space, "nofollow">>
    /\ RelOut = RelIn

\* C15 (as claimed): sanitizing the output of sanitize again gives the same
\* output.
C15_Idempotent ==
    phase = "done" => Markup(Sanitize(result)) = Markup(result)

\* The elements left open by the first n items of an output; <<"!">> when an
\* end tag among them does not close the innermost open element.
RECURSIVE OpenAfter(_, _)
OpenAfter(items, n) ==
    IF n = 0 THEN <<>>
    ELSE LET before == OpenAfter(items, n - 1)
             it == items[n]
         IN  IF before = <<"!">> THEN before
             ELSE IF it.kind = "text" THEN before
             ELSE IF it.kind = "open"
             THEN IF it.name \in SelfClosing THEN before ELSE Append(before, it.name)
             ELSE IF before # <<>> /\ before[Len(before)] = it.name
             THEN Take(before, Len(before) - 1)
             ELSE <<"!">>

\* The input holds an event of this kind.
InputHas(kind) == \E i \in 1..Len(input) : input[i].kind = kind

\* C16: whatever the input (nothing, white space, elements left open, end
\* tags that close other elements than the innermost, end tags without a
\* start tag), sanitize returns: its parser has closed every element, and the
\* output is markup in which every start tag has its end tag.  For null,
\* undefined and the empty string the output is empty.
C16_AlwaysReturnsMarkup ==
    phase = "done" =>
        /\ open = <<>>
        /\ stack = <<>>
        /\ OpenAfter(result, Len(result)) = <<>>
        /\ input = <<>> => result = <<>>

\* C16 witness: sanitize has returned a non-empty output for a fragment with
\* an end tag that has no start tag and an element that was never closed.
C16_Witness ==
    /\ phase = "done"
    /\ InputHas("stray")
    /\ InputHas("open")
    /\ ~InputHas("close")
    /\ OpenItems # {}

(***************************************************************************)
(* Properties of the slug functions                                        *)
(***************************************************************************)
\* The function fn has been called and has returned.
Called(fn) == ret.called /\ arg.fn = fn

\* The slugs that isValidSlug is to reject.
Rejected(slug) ==
    \/ slug = <<>>
    \/ \A i \in 1..Len(slug) : slug[i] \in {Space, Tab}
    \/ \E i \in 1..(Len(slug) - 1) : slug[i] = "." /\ slug[i + 1] = "."
    \/ slug[1] = "/"
    \/ \E i \in 1..Len(slug) : slug[i] \in {"\\", Nul}

\* C17: isValidSlug(slug) is false exactly when slug is empty or white space
\* only, holds "..", begins with "/", or holds a backslash or a NUL; it is
\* true for every other slug.
C17_ValidSlugExactly ==
    Called("isValidSlug") => (ret.value = ~Rejected(arg.slug))

\* C17 witness: a slug of a space and a tab has been rejected.
C17_Witness ==
    /\ Called("isValidSlug")
    /\ arg.slug = <<Space, Tab>>
    /\ ret.value = FALSE

\* The route prefix of each route builder.
RoutePrefix(fn) ==
    CASE fn = "getCategoryUrl" -> <<"/", "blog", "/", "category", "/">>
      [] fn = "getAuthorUrl" -> <<"/", "blog", "/", "author", "/">>
      [] fn = "getPostUrl" -> <<"/", "blog", "/">>
      [] fn = "getTagUrl" -> <<"/", "blog", "/", "tag", "/">>

\* str is the percent-encoding of slug as one path segment: character by
\* character, "/", "?", "#" and "%" escaped, letters and "." kept, and no
\* character of str a path, query or fragment delimiter or a bare "%".
OneSegment(str, slug) ==
    /\ Len(str) = Len(slug)
    /\ \A i \in 1..Len(slug) :
        /\ str[i] \notin {"/", "?", "#", "%"}
        /\ slug[i] = "/" => str[i] = "%2F"
        /\ slug[i] = "?" => str[i] = "%3F"
        /\ slug[i] = "#" => str[i] = "%23"
        /\ slug[i] = "%" => str[i] = "%25"
        /\ slug[i] \in {"a", "."} => str[i] = slug[i]

\* C18: a route builder returns /blog when its record or the slug is missing
\* or the slug is rejected; otherwise it returns its route prefix followed by
\* the slug percent-encoded as one path segment.
C18_RouteOrFallback ==
    \A fn \in RouteBuilders :
        Called(fn) =>
            IF arg.rec.kind # "slug" \/ Rejected(arg.rec.slug)
            THEN ret.value = <<"/", "blog">>
            ELSE /\ Take(ret.value, Len(RoutePrefix(fn))) = RoutePrefix(fn)
                 /\ OneSegment(Drop(ret.value, Len(RoutePrefix(fn))), arg.rec.slug)

\* C18 witness: getPostUrl on the slug a/a has returned /blog/a%2Fa.
C18_Witness ==
    /\ Called("getPostUrl")
    /\ arg.rec.slug = <<"a", "/", "a">>
    /\ ret.value = <<"/", "blog", "/", "a", "%2F", "a">>

\* The path segments that are not empty, of a URL without query and fragment.
Segments(str) == SelectSeq(Split(str), IsSegment)

\* The last path segment of the URL start \o tail that is not empty, query
\* and fragment ignored; for an absolute URL the path is the normalized one.
ClaimedSlug(start, tail) ==
    LET whole == start \o tail
        bare == Take(whole, FirstIn(whole, {"?", "#"}) - 1)
        segs == IF Len(start) = 5
                THEN SelectSeq(PathState(Split(Drop(bare, 5)), <<>>), IsSegment)
                ELSE Segments(bare)
    IN  IF segs = <<>> THEN Null ELSE Some(segs[Len(segs)])

\* C19 (as claimed): extractSlugFromUrl returns the last non-empty path
\* segment of its argument, trailing slash, query and fragment ignored, and
\* null when there is none, for absolute URLs and for other strings alike.
C19_LastPathSegment ==
    Called("extractSlugFromUrl") => ret.value = ClaimedSlug(arg.start, arg.tail)

(***************************************************************************)
(* Properties of the link classification without a site URL                *)
(***************************************************************************)
\* C20: with no site URL configured, every <a> is still classified and
\* output, against the default site localhost: with a target other than
\* _blank, a link with an authority is external exactly when its host is not
\* localhost.
C20_DefaultSiteIsLocalhost ==
    (AnchorDone /\ env = <<>>) =>
        /\ phase = "done"
        /\ result[1].name = "a"
        /\ (TargetIn # <<"_blank">> /\ arg.shape.kind = "url") =>
              ret.isExternal = (LowerCase(arg.shape.host) # "localhost")

\* C20 witness: with no site URL configured, https://localhost:8080 has been
\* classified internal.
C20_Witness ==
    /\ AnchorDone
    /\ env = <<>>
    /\ TargetIn = <<>>
    /\ arg.shape.kind = "url"
    /\ arg.shape.scheme = "https"
    /\ arg.shape.host = "localhost"
    /\ arg.shape.port = "8080"
    /\ ~ret.isExternal

(***************************************************************************)
(* sanitizeWordPressHtml on one <a>, called again and again while the      *)
(* configured site URL changes                                             *)
(***************************************************************************)
\* The <a> elements of these runs: no target, no rel, plain hrefs.
ReconfigArgs ==
    {a \in AnchorArgs :
        /\ Len(a.attribs) <= 1
        /\ a.shape.kind = "url" =>
              ~a.shape.lead /\ ~a.shape.user /\ a.shape.port = "" /\ a.shape.tail = <<>>}

\* The process starts with some site URL configured; arg.startup keeps it
\* for the properties.
InitReconfig ==
    /\ env \in EnvValues
    /\ phase = "idle"
    /\ input = <<>>
    /\ open = <<>>
    /\ stack = <<>>
    /\ depth = 0
    /\ skipMap = {}
    /\ transformMap = <<>>
    /\ skipText = FALSE
    /\ skipTextDepth = 0
    /\ result = <<>>
    /\ \E a \in ReconfigArgs :
          arg = [tag |-> a.tag, shape |-> a.shape, attribs |-> a.attribs, startup |-> env]
    /\ ret = NoRet

\* sanitizeWordPressHtml on the <a>: the verdict of this call, the verdict of
\* the first call, and the site URL configured during this call are kept for
\* the properties.
ClassifyAnchor ==
    /\ input' = <<[kind |-> "open", raw |-> arg.tag, attribs |-> arg.attribs, anc |-> <<>>]>>
    /\ Install(CloseDownTo(ParserOpenTag(Fresh, arg.tag, arg.attribs, 1), 1))
    /\ phase' = "done"
    /\ \E verdict \in {TransformA("a", ParserAttribs(arg.attribs)).isExternal} :
          ret' = [called |-> TRUE, isExternal |-> verdict,
                  first |-> IF ret.called THEN ret.first ELSE verdict, site |-> env]
    /\ UNCHANGED <<env, arg>>

\* process.env.NEXT_PUBLIC_SITE_URL is assigned another value after a call.
SetSiteUrl ==
    /\ ret.called
    /\ env' \in EnvValues \ {env}
    /\ UNCHANGED <<phase, input, open, stack, depth, skipMap, transformMap, skipText,
                   skipTextDepth, result, arg, ret>>

NextReconfig == ClassifyAnchor \/ SetSiteUrl

SpecReconfig == InitReconfig /\ [][NextReconfig]_vars

HostnameOfSite(site) ==
    IF site = <<>> THEN "localhost" ELSE IF Len(site) >= 5 THEN LowerCase(site[5]) ELSE ""

El(name, attribs) == [kind |-> "open", name |-> name, attribs |-> attribs]

Tx(t) == [kind |-> "text", text |-> t]

Cl(name) == [kind |-> "close", name |-> name]

\* HTML fragments of a record, well formed as WordPress renders them.
Fragments ==
    {<<El("p", <<>>), Tx(<<"x">>), Cl("p")>>,
     <<El("strong", <<>>), Tx(<<"x">>), Cl("strong")>>,
     <<El("a", <<At(<<"href">>, <<"/", "about">>)>>), Tx(<<"x">>), Cl("a")>>,
     <<El("a", <<At(<<"href">>, AbsUrl("https", "evil.com", "x")),
                 At(<<"target">>, <<"_blank">>)>>), Tx(<<"x">>), Cl("a")>>,
     <<El("a", <<At(<<"href">>, AbsUrl("ftp", "example.com", "x"))>>), Tx(<<"x">>),
       Cl("a")>>,
     <<El("a", <<At(<<"href">>, <<"javascript", "&#58;", "alert(1)">>)>>), Tx(<<"x">>),
       Cl("a")>>,
     <<El("script", <<>>), Tx(<<"x">>), Cl("script")>>,
     <<El("img", <<At(<<"src">>, AbsUrl("https", "example.com", "x")),
                   At(<<"on", "error">>, <<"alert(1)">>)>>)>>,
     <<Tx(<<"x">>)>>}

\* blockComponents has a component for the block name.
Registered(name) == name \in {"ncos/text", "ncos/section"}

BlockNames == {"", "ncos/text", "ncos/section", "core/html"}

\* Blocks without inner blocks.
LeafBlocks ==
    {[name |-> n, innerHTML |-> h, innerBlocks |-> <<>>] :
        n \in BlockNames, h \in Fragments \cup {<<>>}}

\* Blocks holding one inner block.
ParentBlocks ==
    {[name |-> n, innerHTML |-> <<>>, innerBlocks |-> <<b>>] :
        n \in {"ncos/section", "core/html"},
        b \in {l \in LeafBlocks : l.name \in {"ncos/text", "core/html"}}}

\* The posts the page renders, with or without parsed blocks.
Posts ==
    {[fn |-> "BlogPost", content |-> c, blocks |-> bs] :
        c \in {<<El("p", <<>>), Tx(<<"x">>), Cl("p")>>,
               <<El("script", <<>>), Tx(<<"x">>), Cl("script")>>},
        bs \in {<<>>} \cup {<<b>> : b \in LeafBlocks \cup ParentBlocks}}

\* The string children handed to a Text component.
TextProps ==
    {[fn |-> c, children |-> h, dangerouslySetHtml |-> d] :
        c \in {"blocks/Text", "primitives/Text"}, h \in Fragments, d \in BOOLEAN}

\* parse(html) of html-react-parser: the elements of the DOM the parser
\* builds, names lower-cased and attribute values decoded, nothing removed.
parse(items) ==
    [i \in 1..Len(items) |->
        IF items[i].kind = "open"
        THEN El(LowerCase(items[i].name), ParserAttribs(items[i].attribs))
        ELSE items[i]]

\* extractTextContent(innerHTML): parse with the inline elements wrapped in
\* Text components, which render the same element with the same attributes.
extractTextContent(innerHTML) == parse(innerHTML)

\* One raw insertion: the rendering path, the fragment of the record and the
\* markup that reaches the page.
Insertion(path, source, html) == [path |-> path, source |-> source, html |-> html]

\* renderBlock of GutenbergRenderer, and the map over blocks around it: the
\* insertions it makes.
RECURSIVE renderBlock(_), renderBlocks(_)
renderBlock(block) ==
    IF block.name = "" THEN <<>>
    ELSE IF Registered(block.name)
    THEN IF block.innerBlocks # <<>> THEN renderBlocks(block.innerBlocks)
         ELSE IF block.name = "ncos/text" /\ block.innerHTML # <<>>
         THEN <<Insertion("text block", block.innerHTML,
                          extractTextContent(block.innerHTML))>>
         ELSE <<>>
    ELSE IF block.innerHTML # <<>>
    THEN <<Insertion("block fallback", block.innerHTML, parse(block.innerHTML))>>
    ELSE <<>>

renderBlocks(blocks) ==
    IF blocks = <<>> THEN <<>>
    ELSE renderBlock(Head(blocks)) \o renderBlocks(Tail(blocks))

\* The options of the sanitizeHtml call of blocks/Text.
InlineTags == {"strong", "em", "span", "a", "br"}

InlineAttributes(tag) ==
    CASE tag = "span" -> Names({"class"})
      [] tag = "a" -> Names({"href", "target", "rel", "class"})
      [] OTHER -> {}

\* sanitize-html's default allowedSchemes, which that call leaves in place.
DefaultSchemes == {"http", "https", "ftp", "mailto", "tel"}

\* naughtyHref under the default schemes.
naughtyHrefDefault(href) ==
    LET h == Without(href, {Space})
    IN  IF Len(h) >= 2 /\ IsSchemeWord(h[1]) /\ h[2] = ":"
        THEN LowerCase(h[1]) \notin DefaultSchemes
        ELSE FALSE

KeepInlineAttribute(name, at) ==
    /\ ~(at.v = <<>> /\ at.n \notin AllowedEmptyAttributes /\ at.n \in NonBooleanAttributes)
    /\ at.n \in InlineAttributes(name)
    /\ ~(at.n \in AllowedSchemesAppliedToAttributes /\ naughtyHrefDefault(at.v))

RECURSIVE FilterInlineAttribs(_, _)
FilterInlineAttribs(name, attribs) ==
    IF attribs = <<>> THEN <<>>
    ELSE IF KeepInlineAttribute(name, Head(attribs))
    THEN <<Head(attribs)>> \o FilterInlineAttribs(name, Tail(attribs))
    ELSE FilterInlineAttribs(name, Tail(attribs))

\* sanitizeHtml(children, {allowedTags, allowedAttributes}) from item idx of
\* a well-formed fragment on; skip counts the open elements whose text is
\* dropped.  No transformTags, no exclusiveFilter.
RECURSIVE sanitizeInlineFrom(_, _, _)
sanitizeInlineFrom(items, idx, skip) ==
    IF idx > Len(items) THEN <<>>
    ELSE LET it == items[idx]
         IN  IF it.kind = "text"
             THEN (IF skip > 0 THEN <<>> ELSE <<it>>)
                      \o sanitizeInlineFrom(items, idx + 1, skip)
             ELSE IF it.kind = "open"
             THEN IF LowerCase(it.name) \in InlineTags /\ skip = 0
                  THEN <<El(LowerCase(it.name),
                            FilterInlineAttribs(LowerCase(it.name),
                                                ParserAttribs(it.attribs)))>>
                           \o sanitizeInlineFrom(items, idx + 1, skip)
                  ELSE sanitizeInlineFrom(items, idx + 1,
                           IF LowerCase(it.name) \in NonTextTags \/ skip > 0
                           THEN IF LowerCase(it.name) \in VoidElements THEN skip
                                ELSE skip + 1
                           ELSE skip)
             ELSE IF skip > 0
             THEN sanitizeInlineFrom(items, idx + 1, skip - 1)
             ELSE (IF it.name \in InlineTags THEN <<it>> ELSE <<>>)
                      \o sanitizeInlineFrom(items, idx + 1, skip)

\* The sanitizeHtml call of blocks/Text on string children.
sanitizeInline(items) == sanitizeInlineFrom(items, 1, 0)

RenderArgs == Posts \cup TextProps

InitRender ==
    /\ env \in SiteUrls
    /\ phase = "idle"
    /\ input = <<>>
    /\ open = <<>>
    /\ stack = <<>>
    /\ depth = 0
    /\ skipMap = {}
    /\ transformMap = <<>>
    /\ skipText = FALSE
    /\ skipTextDepth = 0
    /\ result = <<>>
    /\ arg \in RenderArgs
    /\ ret = NoRet

Rendered(insertions) ==
    /\ ret' = [called |-> TRUE, inserted |-> insertions]
    /\ phase' = "done"
    /\ UNCHANGED <<env, input, open, stack, depth, skipMap, transformMap, skipText,
                   skipTextDepth, result, arg>>

\* BlogPost: the block renderer when the post has blocks, the rendered
\* content as raw HTML otherwise.
RenderBlogPost ==
    /\ phase = "idle"
    /\ arg.fn = "BlogPost"
    /\ Rendered(IF Len(arg.blocks) > 0 THEN renderBlocks(arg.blocks)
                ELSE <<Insertion("content fallback", arg.content, arg.content)>>)

\* Text of components/blocks with string children.
RenderBlockText ==
    /\ phase = "idle"
    /\ arg.fn = "blocks/Text"
    /\ Rendered(<<Insertion("inline", arg.children, sanitizeInline(arg.children))>>)

\* Text of components/primitives with string children: raw HTML only under
\* dangerouslySetHtml, text escaped by React otherwise.
RenderPrimitiveText ==
    /\ phase = "idle"
    /\ arg.fn = "primitives/Text"
    /\ Rendered(IF arg.dangerouslySetHtml
                THEN <<Insertion("html", arg.children, Markup(Sanitize(arg.children)))>>
                ELSE <<>>)

NextRender == RenderBlogPost \/ RenderBlockText \/ RenderPrimitiveText

SpecRender == InitRender /\ [][NextRender]_vars

(***************************************************************************)
(* Properties of the rendering paths                                       *)
(***************************************************************************)
\* C22 (as claimed): every fragment of a record that a rendering path
\* inserts into the page is the sanitizer's output for that fragment.
C22_EveryInsertionSanitized ==
    ret.called =>
        \A i \in 1..Len(ret.inserted) :
            ret.inserted[i].html = Markup(Sanitize(ret.inserted[i].source))

\* Every element and attribute of the fragment lies within the inline
\* allow-list.
InlineOnly(items) ==
    \A i \in 1..Len(items) :
        items[i].kind = "open" =>
            /\ items[i].name \in InlineTags
            /\ \A j \in 1..Len(items[i].attribs) :
                  items[i].attribs[j].n \in InlineAttributes(items[i].name)

\* C23 (as claimed): on a fragment within the inline allow-list the Text
\* block's sanitizer returns what sanitize returns.
C23_InlineSameAsSanitize ==
    (ret.called /\ arg.fn = "blocks/Text" /\ InlineOnly(arg.children)) =>
        ret.inserted[1].html = Markup(Sanitize(arg.children))

(***************************************************************************)
(* Properties of the embed's loading attribute                             *)
(***************************************************************************)
\* The loading attribute of the <iframe> under test and of the output.
LoadingIn == Attr(arg.attribs, <<"loading">>)

LoadingOut == Attr(result[1].attribs, <<"loading">>)

\* C24: an <iframe> that is permitted is an <iframe> of the output and
\* carries a loading attribute there: the value the input gave it, or lazy
\* when the input gave none.
C24_PermittedIframeHasLoading ==
    (IframeDone /\ ret.allowed) =>
        /\ Len(result) >= 1
        /\ result[1].kind = "open"
        /\ result[1].name = "iframe"
        /\ LoadingOut = IF LoadingIn # <<>> THEN LoadingIn ELSE <<"lazy">>

\* C24 witness: a permitted <iframe> written without loading has come out
\* with loading="lazy".
C24_Witness ==
    /\ IframeDone
    /\ ret.allowed
    /\ LoadingIn = <<>>
    /\ result[1].name = "iframe"
    /\ LoadingOut = <<"lazy">>

(***************************************************************************)
(* Properties of the URL-valued attributes                                 *)
(***************************************************************************)
\* The schemes in force for the element named name: its own list when the
\* policy gives it one, the general list otherwise.
EffectiveSchemes(name) ==
    IF HasSchemesByTag(name) THEN AllowedSchemesByTag(name) ELSE ALLOWED_URL_SCHEMES

\* C25 (as claimed): no href, src, poster or cite of the output has a
\* scheme outside the schemes in force for its element.
C25_UrlAttributesSchemeChecked ==
    \A i \in OpenItems :
        \A k \in 1..Len(result[i].attribs) :
            result[i].attribs[k].n \in Names({"href", "src", "poster", "cite"}) =>
                SchemeOf(result[i].attribs[k].v)
                    \in EffectiveSchemes(result[i].name) \cup {""}

(***************************************************************************)
(* Properties of the empty-paragraph cleanup                               *)
(***************************************************************************)
\* The input is one <p> left open to the end, and everything after its
\* start tag is text or the start tag of an allowed element inside it.
ParagraphRun ==
    /\ Len(input) >= 1
    /\ input[1].kind = "open"
    /\ input[1].raw = "p"
    /\ \A i \in 2..Len(input) :
          /\ input[i].kind \in {"open", "text"}
          /\ input[i].kind = "open" =>
                /\ LowerCase(input[i].raw) \in ALLOWED_TAGS
                /\ input[i].anc # <<>>
                /\ input[i].anc[1] = "p"

\* The subtree of that <p> holds text that is not white space.
ParagraphHasText ==
    \E i \in 2..Len(input) : input[i].kind = "text" /\ ~IsBlank(input[i].text)

\* The subtree of that <p> holds a media element, at any depth.
ParagraphHasMedia ==
    \E i \in 2..Len(input) : input[i].kind = "open" /\ LowerCase(input[i].raw) \in MediaTags

\* The <p> is in the output.
ParagraphKept == \E j \in OpenItems : result[j].from = 1 /\ result[j].name = "p"

\* C26 (as claimed): when sanitize returns, the <p> has been removed exactly
\* when its subtree holds no text other than white space and no media
\* element at any depth.
C26_ParagraphRemovedOnlyWhenEmpty ==
    (phase = "done" /\ ParagraphRun) =>
        (ParagraphKept <=> (ParagraphHasText \/ ParagraphHasMedia))

(***************************************************************************)
(* wp-fetch: getPostById, getPageById, getCategoryById                     *)
(***************************************************************************)
\* The largest magnitude of an id of the runs.
MaxId == 3

\* Numbers passed as id: an integer n, the fraction n + 1/2, NaN, and the
\* two infinities.
Ids ==
    {[kind |-> k, n |-> n] : k \in {"int", "frac"}, n \in (0 - MaxId)..MaxId}
        \cup {[kind |-> k, n |-> 0] : k \in {"nan", "inf", "-inf"}}

\* Number.isInteger(id) && id > 0
isValidId(id) == id.kind = "int" /\ id.n > 0

ByIdFunctions == {"getPostById", "getPageById", "getCategoryById"}

\* How the fetch of a call ends: a response with ok set and a JSON body, a
\* response with ok set whose body json() rejects, a response without ok,
\* or a rejected fetch.
FetchOutcomes == {"ok", "bad json", "not ok", "network error"}

\* The JSON bodies of a response: a record, or null.
Bodies == {"record", "null"}

\* Variant: the body of the try block without its catch.
TryFetchNoCatch(outcome, body) ==
    IF outcome \in {"network error", "bad json"}
    THEN [threw |-> TRUE, value |-> "none"]
    ELSE IF outcome = "not ok" THEN [threw |-> FALSE, value |-> "null"]
    ELSE [threw |-> FALSE, value |-> body]

\* The try/catch of a by-id function, once its fetch has ended: what the
\* call returns and whether an exception leaves it.
TryFetch(outcome, body) ==
    IF outcome \in {"network error", "bad json"}
    THEN [threw |-> FALSE, value |-> "null"]
    ELSE IF outcome = "not ok" THEN [threw |-> FALSE, value |-> "null"]
    ELSE [threw |-> FALSE, value |-> body]

InitFetch ==
    /\ env = <<>>
    /\ phase = "idle"
    /\ input = <<>>
    /\ open = <<>>
    /\ stack = <<>>
    /\ depth = 0
    /\ skipMap = {}
    /\ transformMap = <<>>
    /\ skipText = FALSE
    /\ skipTextDepth = 0
    /\ result = <<>>
    /\ arg \in {[fn |-> f, id |-> i] : f \in ByIdFunctions, i \in Ids}
    /\ ret = NoRet

\* A by-id function up to its await: null at once for an invalid id, one
\* fetch issued otherwise.
CallById(fn) ==
    /\ phase = "idle"
    /\ arg.fn = fn
    /\ IF ~isValidId(arg.id)
       THEN /\ ret' = [called |-> TRUE, fetches |-> 0, outcome |-> "none",
                       threw |-> FALSE, value |-> "null"]
            /\ phase' = "done"
       ELSE /\ ret' = [called |-> TRUE, fetches |-> 1, outcome |-> "none",
                       threw |-> FALSE, value |-> "none"]
            /\ phase' = "awaiting"
    /\ UNCHANGED <<env, input, open, stack, depth, skipMap, transformMap, skipText,
                   skipTextDepth, result, arg>>

getPostById == CallById("getPostById")

getPageById == CallById("getPageById")

getCategoryById == CallById("getCategoryById")

\* The fetch ends and the call resumes to its return.
FetchSettles ==
    /\ phase = "awaiting"
    /\ \E outcome \in FetchOutcomes, body \in Bodies :
          \E r \in {TryFetch(outcome, body)} :
              ret' = [ret EXCEPT !.outcome = outcome, !.threw = r.threw,
                                 !.value = r.value]
    /\ phase' = "done"
    /\ UNCHANGED <<env, input, open, stack, depth, skipMap, transformMap, skipText,
                   skipTextDepth, result, arg>>

NextFetch == getPostById \/ getPageById \/ getCategoryById \/ FetchSettles

SpecFetch == InitFetch /\ [][NextFetch]_vars

(***************************************************************************)
(* Properties of the by-id functions                                       *)
(***************************************************************************)
\* The id of the call is a positive integer.
PositiveInteger == arg.id.kind = "int" /\ arg.id.n >= 1

\* C27: a by-id function called with an id that is not a positive integer
\* returns null and issues no fetch; called with a positive integer it does
\* not throw, and returns null when the response is not OK or the fetch
\* failed.
C27_ByIdNullAndNoThrow ==
    ret.called =>
        /\ ~PositiveInteger =>
              phase = "done" /\ ret.value = "null" /\ ret.fetches = 0 /\ ~ret.threw
        /\ (PositiveInteger /\ phase = "done") =>
              /\ ~ret.threw
              /\ ret.fetches = 1
              /\ ret.outcome \in {"not ok", "network error"} => ret.value = "null"

\* C27 witness: getCategoryById with a positive integer has returned null
\* after its fetch was rejected.
C27_Witness ==
    /\ ret.called
    /\ arg.fn = "getCategoryById"
    /\ PositiveInteger
    /\ phase = "done"
    /\ ret.outcome = "network error"
    /\ ret.value = "null"
    /\ ~ret.threw

(***************************************************************************)
(* Properties of the extracted slug                                        *)
(***************************************************************************)
\* C28: extractSlugFromUrl returns null or a slug that is not empty, holds
\* no "/" and is one isValidSlug accepts, whether new URL parsed the
\* argument or the fallback pattern was used.
C28_ExtractedSlugIsValid ==
    Called("extractSlugFromUrl") =>
        \/ ret.value.isNull
        \/ /\ ret.value.slug # <<>>
           /\ "/" \notin Range(ret.value.slug)
           /\ ~Rejected(ret.value.slug)

\* C28 witness: the fallback pattern found the segment a..a in a string
\* that is no URL, and the call returned null.
C28_Witness ==
    /\ Called("extractSlugFromUrl")
    /\ arg.start = <<>>
    /\ arg.tail = <<"/", "a", ".", ".", "a">>
    /\ ret.value.isNull

(***************************************************************************)
(* Properties of mail and telephone links                                  *)
(***************************************************************************)
\* The href of the <a> under test.
HrefIn == Attr(arg.attribs, <<"href">>)

\* The href is a mailto: or tel: link, in whatever letter case its scheme
\* is written.
MailOrTelHref ==
    /\ Len(HrefIn) >= 2
    /\ LowerCase(HrefIn[1]) \in {"mailto", "tel"}
    /\ HrefIn[2] = ":"

\* C29 (as claimed): the verdict on a mailto: or tel: link is the verdict
\* on the same link with its scheme written in lower case.
C29_MailSchemeAnyCase ==
    (AnchorDone /\ MailOrTelHref) =>
        ret.isExternal = isExternal(<<LowerCase(HrefIn[1])>> \o Tail(HrefIn), TargetIn)

(***************************************************************************)
(* Properties of a site URL that is no URL                                 *)
(***************************************************************************)
\* C30: with a site URL that is set and that new URL rejects, sanitize
\* returns, and every <a> whose target is not _blank is classified internal
\* and comes out with the rel it came with, an absolute link to another
\* host included.
C30_UnparsableSiteAllInternal ==
    (AnchorDone /\ env # <<>> /\ ~SiteParsable /\ TargetIn # <<"_blank">>) =>
        /\ phase = "done"
        /\ ~ret.isExternal
        /\ result[1].name = "a"
        /\ RelOut = RelIn

\* C30 witness: with the site URL example.com, which has no scheme, the link
\* https://evil.com without target and rel has been classified internal.
C30_Witness ==
    /\ AnchorDone
    /\ env = <<"example.com">>
    /\ arg.shape.kind = "url"
    /\ arg.shape.scheme = "https"
    /\ arg.shape.host = "evil.com"
    /\ TargetIn = <<>>
    /\ RelIn = <<>>
    /\ ~ret.isExternal
    /\ RelOut = <<>>

====
